---- MODULE Spec2Model ----
(***************************************************************************)
(* Kokkos atomics (GNU back end): the primitive dispatch layer, the        *)
(* operation catalog and the generic compare-and-swap retry loop of        *)
(* core/src/impl/Kokkos_Atomic_GNU.hpp, as a state machine.                *)
(*                                                                         *)
(* One target object *ptr of element type T is shared by the threads.      *)
(* Every GCC __atomic builtin is one indivisible step on it.  A thread     *)
(* issues calls of the API; a call that is served by one builtin is one    *)
(* step, a call served by Impl::atomic_fetch_op / Impl::atomic_op_fetch is *)
(* the initial relaxed load followed by one step per compare-exchange      *)
(* attempt.                                                                *)
(***************************************************************************)
EXTENDS Integers, Sequences, FiniteSets, TLC

\* ------------------------------------------------------------------ bounds
\* Width in bits of the modelled element; values are 0 .. 2^Bits - 1.
Bits == 2
\* Number of concurrently calling threads.
NThreads == 2
\* Calls of atomic_fetch_add each thread makes on the shared counter.
MaxCalls == 2
\* Largest operand of the calls that run concurrently.
MaxOperand == 2

Modulus == 2 ^ Bits
Values  == 0 .. (Modulus - 1)
Threads == 1 .. NThreads
Operands == 1 .. MaxOperand

\* ------------------------------------------------------- element types (T)
\* A type is described by the traits the dispatch predicates read.
TypeDesc(n, v, p, i, b, s) ==
  [name |-> n, volatile |-> v, pointer |-> p, integral |-> i, bool |-> b, size |-> s]

Int32T   == TypeDesc("int32_t", FALSE, FALSE, TRUE,  FALSE, 4)
WrappedT == TypeDesc("struct",  FALSE, FALSE, FALSE, FALSE, 16)

\* The element types the dynamic specifications run with: one explicit-path
\* arithmetic type and one generic-path (struct-wrapped) type.
ElemTypes == {Int32T, WrappedT}

\* The types a call site can instantiate the API with: every combination of
\* the traits the dispatch predicates read that a C++ type can have.
BoolT          == TypeDesc("bool",             FALSE, FALSE, TRUE,  TRUE,  1)
Int64T         == TypeDesc("int64_t",          FALSE, FALSE, TRUE,  FALSE, 8)
Int128T        == TypeDesc("__int128",         FALSE, FALSE, TRUE,  FALSE, 16)
PointerT       == TypeDesc("int*",             FALSE, TRUE,  FALSE, FALSE, 8)
DoubleT        == TypeDesc("double",           FALSE, FALSE, FALSE, FALSE, 8)
VolatileInt32T == TypeDesc("volatile int32_t", TRUE,  FALSE, TRUE,  FALSE, 4)
VolatileT      == TypeDesc("volatile struct",  TRUE,  FALSE, FALSE, FALSE, 16)

AllTypes == {BoolT, Int32T, Int64T, Int128T, PointerT, DoubleT, WrappedT,
             VolatileInt32T, VolatileT}

\* sizeof(int64_t): KOKKOS_ENABLE_INT128 is not defined.
max_atomic_integer_size == 8

explicit_ignores_size(ty) == ~ty.volatile /\ (ty.pointer \/ ty.integral)

explicit_atomic_op(ty) ==
  ~ty.volatile /\ (ty.pointer \/ (ty.integral /\ ty.size <= max_atomic_integer_size))

generic_atomic_op(ty) ==
  ~ty.volatile /\ ~(ty.pointer \/ (ty.integral /\ ty.size <= max_atomic_integer_size))

arithmetic_atomic_op(ty) ==
  ~ty.volatile /\ (ty.pointer \/ (ty.integral /\ ty.size <= max_atomic_integer_size /\ ~ty.bool))

non_arithmetic_atomic_op(ty) ==
  ~ty.volatile /\ ~(ty.pointer \/ (ty.integral /\ ty.size <= max_atomic_integer_size /\ ~ty.bool))

\* The overloads of load / store / exchange / compare-exchange whose
\* enable_if condition holds for T.
Overloads(ty) ==
  (IF explicit_atomic_op(ty) THEN {"explicit"} ELSE {}) \cup
  (IF generic_atomic_op(ty)  THEN {"generic"}  ELSE {})

\* The overloads of the add / sub / and / or / xor / nand entry points.
ArithmeticOverloads(ty) ==
  (IF arithmetic_atomic_op(ty)     THEN {"arithmetic"}     ELSE {}) \cup
  (IF non_arithmetic_atomic_op(ty) THEN {"non_arithmetic"} ELSE {})

\* ------------------------------------------------------------ memory orders
\* The orders are distinct types, so that a wrong one is a compile-time error.
MemoryOrderRelaxed == "MemoryOrderRelaxed"
MemoryOrderAcquire == "MemoryOrderAcquire"
MemoryOrderRelease == "MemoryOrderRelease"
MemoryOrderAcqRel  == "MemoryOrderAcqRel"
MemoryOrderSeqCst  == "MemoryOrderSeqCst"

MemoryOrders == {MemoryOrderRelaxed, MemoryOrderAcquire, MemoryOrderRelease,
                 MemoryOrderAcqRel, MemoryOrderSeqCst}

\* What a call site can pass as an Order template argument: one of the five
\* markers or some other type (here int, the type of a std::memory_order value).
OrderArgs == MemoryOrders \cup {"int"}

\* The primary templates are false_type; the specializations are listed.
valid_memory_order(o) ==
  o \in {MemoryOrderRelaxed, MemoryOrderAcquire, MemoryOrderRelease,
         MemoryOrderAcqRel, MemoryOrderSeqCst}

load_order_any(o) == o \in MemoryOrders

valid_atomic_load_order(o) ==
  o \in {MemoryOrderRelaxed, MemoryOrderAcquire, MemoryOrderSeqCst}

valid_atomic_store_order(o) ==
  o \in {MemoryOrderRelaxed, MemoryOrderRelease, MemoryOrderSeqCst}

any_order_pair(s, f) == valid_memory_order(s) /\ valid_memory_order(f)

failure_relaxed_only(s, f) == valid_memory_order(s) /\ f = MemoryOrderRelaxed

valid_atomic_compare_exchange_order(s, f) ==
  <<s, f>> \in {<<MemoryOrderRelaxed, MemoryOrderRelaxed>>,
                <<MemoryOrderAcquire, MemoryOrderRelaxed>>,
                <<MemoryOrderRelease, MemoryOrderRelaxed>>,
                <<MemoryOrderAcqRel,  MemoryOrderRelaxed>>,
                <<MemoryOrderSeqCst,  MemoryOrderRelaxed>>,
                <<MemoryOrderAcquire, MemoryOrderAcquire>>,
                <<MemoryOrderRelease, MemoryOrderAcquire>>,
                <<MemoryOrderAcqRel,  MemoryOrderAcquire>>,
                <<MemoryOrderSeqCst,  MemoryOrderAcquire>>,
                <<MemoryOrderSeqCst,  MemoryOrderSeqCst>>}

\* What each order adds, as the comments on the five constants put it:
\* acq_rel combines acquire and release, seq_cst adds a total order.
Guarantees(o) ==
  CASE o = MemoryOrderRelaxed -> {}
    [] o = MemoryOrderAcquire -> {"acquire"}
    [] o = MemoryOrderRelease -> {"release"}
    [] o = MemoryOrderAcqRel  -> {"acquire", "release"}
    [] o = MemoryOrderSeqCst  -> {"acquire", "release", "total order"}

\* Order a is stronger than order b.
Stronger(a, b) == Guarantees(b) \subseteq Guarantees(a) /\ Guarantees(a) # Guarantees(b)

\* ------------------------------------------------- operation descriptors
Ops == {"add", "sub", "mul", "div", "mod", "and", "or", "xor", "nand",
        "min", "max", "lshift", "rshift"}

RECURSIVE Bitwise(_, _, _, _)
Bitwise(k, a, b, n) ==
  IF n = 0 THEN 0
  ELSE LET x == a % 2
           y == b % 2
           z == CASE k = "and" -> x * y
                  [] k = "or"  -> IF x + y > 0 THEN 1 ELSE 0
                  [] k = "xor" -> (x + y) % 2
       IN  z + 2 * Bitwise(k, a \div 2, b \div 2, n - 1)

\* The operand values for which Op::apply is defined (no division or modulo
\* by zero, no shift count >= the bit width).
OpDefined(o, b) ==
  CASE o \in {"div", "mod"}       -> b # 0
    [] o \in {"lshift", "rshift"} -> b < Bits
    [] OTHER                      -> TRUE

\* Op::apply(a, b) of the operation descriptor named o, on Bits-bit values.
apply(o, a, b) ==
  CASE o = "add"    -> (a + b) % Modulus
    [] o = "sub"    -> (a - b) % Modulus
    [] o = "mul"    -> (a * b) % Modulus
    [] o = "div"    -> a \div b
    [] o = "mod"    -> a % b
    [] o = "and"    -> Bitwise("and", a, b, Bits)
    [] o = "or"     -> Bitwise("or", a, b, Bits)
    [] o = "xor"    -> Bitwise("xor", a, b, Bits)
    [] o = "nand"   -> (Modulus - 1) - Bitwise("and", a, b, Bits)
    [] o = "min"    -> IF a < b THEN a ELSE b
    [] o = "max"    -> IF a > b THEN a ELSE b
    [] o = "lshift" -> (a * (2 ^ b)) % Modulus
    [] o = "rshift" -> a \div (2 ^ b)

\* ------------------------------------------------------------------ state
VARIABLES
  T,         \* element type of the target
  mem,       \* *ptr, the shared target
  pc,        \* per thread: "idle", "cas" (inside the retry loop), "ret"
  call,      \* per thread: the call in progress or last returned
  expected,  \* per thread: the local `expected` (the caller's *expected for compare-exchange)
  desired,   \* per thread: the local `desired`
  ret,       \* per thread: the value the last call returned
  init0,     \* history: the initial value of the target
  pre,       \* history: per thread, the target just before the thread's latest step
  post,      \* history: per thread, the target just after the thread's latest step
  lastw,     \* history: the store or exchange that was the thread's previous call
  order,     \* history: threads in the order of their calls' final builtin step
  fresh,     \* history: the target has not changed since the looping thread last read it
  calls,     \* history: calls begun per thread
  tick,      \* history: flips whenever a call returns
  site,      \* the call site: entry point and the ordering arguments it passes
  accepted,  \* the call site compiled (an overload exists, no static_assert fired)
  api,       \* the calls of the ordering-aware API the call site made
  log,       \* the GCC builtins the call invoked, with their memory orders
  view,      \* an atomic view: the elements behind its data handle and the proxies bound to them
  mp,        \* ordinary data published through the target: writes, messages, what each thread has seen
  exec,      \* the StdExecutors execution space: default instance, context, futures, functors
  alloc      \* the tracked allocations of the memory space: records, counts, the last call

vars == <<T, mem, pc, call, expected, desired, ret,
          init0, pre, post, lastw, order, fresh, calls, tick,
          site, accepted, api, log, view, mp, exec, alloc>>

\* Marks "no value": the one integer past the values a target can hold.
NoValue == Modulus

Call(f, i, o, v, e) == [fn |-> f, impl |-> i, op |-> o, val |-> v, exp |-> e]
NoWrite == [fn |-> "none", val |-> 0]
NoCall == Call("none", "none", "none", 0, 0)

CanCall(t) == pc[t] \in {"idle", "ret"}

\* The call is served by Impl::atomic_fetch_op or Impl::atomic_op_fetch.
Looping(t) == call[t].impl \in {"atomic_fetch_op", "atomic_op_fetch"}

\* The caller is at the while test of the retry loop.
InLoop(t) == pc[t] = "cas"

\* A call served by a single builtin: it returns in the step that begins it.
Returns(t, c, m, e, d, r) ==
  /\ CanCall(t)
  /\ call' = [call EXCEPT ![t] = c]
  /\ mem' = m
  /\ expected' = [expected EXCEPT ![t] = e]
  /\ desired' = [desired EXCEPT ![t] = d]
  /\ ret' = [ret EXCEPT ![t] = r]
  /\ pc' = [pc EXCEPT ![t] = "ret"]
  /\ UNCHANGED T

\* ------------------------------------------------------ primitive dispatch
\* __atomic_load_n / __atomic_load: the whole object, read in one step.
load_builtin(m) == m

store_dropped(m, v) == m

\* __atomic_store_n / __atomic_store: the whole object, written in one step.
store_builtin(m, v) == v

\* __atomic_compare_exchange_n / __atomic_compare_exchange on target value m
\* with *expected = e: equal (and, for a weak one, no spurious failure):
\* desired is written; otherwise the target's value is copied to *expected.
compare_exchange_builtin(m, e, d, weak, spurious) ==
  IF m = e /\ ~(weak /\ spurious)
  THEN [ok |-> TRUE,  mem |-> d, expected |-> e]
  ELSE [ok |-> FALSE, mem |-> m, expected |-> m]

\* atomic_compare_exchange passes weak = false on both paths.
strong_as_weak(m, e, d, spurious) ==
  compare_exchange_builtin(m, e, d, TRUE, spurious)

strong_no_refresh(m, e, d, spurious) ==
  [compare_exchange_builtin(m, e, d, FALSE, spurious) EXCEPT !.expected = e]

strong_compare_exchange(m, e, d, spurious) ==
  compare_exchange_builtin(m, e, d, FALSE, spurious)

weak_blind_write(m, e, d, spurious) ==
  [ok |-> TRUE, mem |-> d, expected |-> e]

weak_no_refresh(m, e, d, spurious) ==
  [compare_exchange_builtin(m, e, d, TRUE, spurious) EXCEPT !.expected = e]

weak_always_fails(m, e, d, spurious) ==
  compare_exchange_builtin(m, e, d, TRUE, TRUE)

weak_failure_writes(m, e, d, spurious) ==
  [compare_exchange_builtin(m, e, d, TRUE, spurious) EXCEPT !.mem = d]

\* atomic_compare_exchange_weak passes weak = true on both paths.
weak_compare_exchange(m, e, d, spurious) ==
  compare_exchange_builtin(m, e, d, TRUE, spurious)

\* Exactly one overload (explicit or generic) is enabled for a non-volatile T;
\* both hand the whole object to the corresponding builtin.
atomic_load(t) ==
  /\ explicit_atomic_op(T) \/ generic_atomic_op(T)
  /\ Returns(t, Call("atomic_load", "builtin", "none", 0, 0),
             mem, 0, 0, load_builtin(mem))

atomic_store(t, v) ==
  /\ explicit_atomic_op(T) \/ generic_atomic_op(T)
  /\ Returns(t, Call("atomic_store", "builtin", "none", v, 0),
             store_builtin(mem, v), 0, 0, 0)

\* Explicit path: __atomic_exchange_n returns the prior value.
atomic_exchange_explicit(t, v) ==
  /\ explicit_atomic_op(T)
  /\ Returns(t, Call("atomic_exchange", "builtin", "none", v, 0),
             v, 0, 0, mem)

\* Generic path: the builtin named is __atomic_store, with &ret as an extra
\* argument; the target is stored and the local ret is returned without
\* ever having been written (any value).
atomic_exchange_generic(t, v) ==
  /\ generic_atomic_op(T)
  /\ \E r \in Values :
       Returns(t, Call("atomic_exchange", "builtin", "none", v, 0),
               store_builtin(mem, v), 0, 0, r)

atomic_compare_exchange(t, e, d) ==
  /\ explicit_atomic_op(T) \/ generic_atomic_op(T)
  /\ \E spurious \in BOOLEAN :
       LET r == strong_compare_exchange(mem, e, d, spurious)
       IN  Returns(t, Call("atomic_compare_exchange", "builtin", "none", d, e),
                   r.mem, r.expected, d, r.ok)

atomic_compare_exchange_weak(t, e, d) ==
  /\ explicit_atomic_op(T) \/ generic_atomic_op(T)
  /\ \E spurious \in BOOLEAN :
       LET r == weak_compare_exchange(mem, e, d, spurious)
       IN  Returns(t, Call("atomic_compare_exchange_weak", "builtin", "none", d, e),
                   r.mem, r.expected, d, r.ok)

\* The legacy atomic_compare_exchange(volatile T*, compare, val): after its
\* call of the ordering-aware atomic_compare_exchange(ptr, &expected, desired,
\* acq_rel, relaxed) returned result, it returns result ? val : expected.
legacy_compare_exchange_result(result, val, exp) == IF result THEN val ELSE exp

\* ------------------------------------------- generic CAS-loop engine (Impl)
fetch_op_returns_desired(e, d) == d

\* Impl::atomic_fetch_op returns expected, the value its compare-exchange replaced.
fetch_op_result(e, d) == e

\* Impl::atomic_op_fetch returns desired, the value its compare-exchange installed.
op_fetch_result(e, d) == d

\* T expected = atomic_load(ptr, relaxed); T desired = Op::apply(expected, val);
loop_begin(t, f, i, o, v) ==
  /\ CanCall(t)
  /\ OpDefined(o, v)
  /\ call' = [call EXCEPT ![t] = Call(f, i, o, v, 0)]
  /\ expected' = [expected EXCEPT ![t] = load_builtin(mem)]
  /\ desired' = [desired EXCEPT ![t] = apply(o, load_builtin(mem), v)]
  /\ ret' = [ret EXCEPT ![t] = 0]
  /\ pc' = [pc EXCEPT ![t] = "cas"]
  /\ UNCHANGED <<T, mem>>

\* One evaluation of the while condition
\*   !atomic_compare_exchange_weak(ptr, &expected, desired, order, relaxed)
\* and, when it failed, of the body desired = Op::apply(expected, val).
loop_attempt(t) ==
  /\ pc[t] = "cas"
  /\ \E spurious \in BOOLEAN :
       LET r == weak_compare_exchange(mem, expected[t], desired[t], spurious)
       IN  /\ mem' = r.mem
           /\ expected' = [expected EXCEPT ![t] = r.expected]
           /\ IF r.ok
              THEN /\ pc' = [pc EXCEPT ![t] = "ret"]
                   /\ ret' = [ret EXCEPT ![t] =
                                IF call[t].impl = "atomic_fetch_op"
                                THEN fetch_op_result(expected[t], desired[t])
                                ELSE op_fetch_result(expected[t], desired[t])]
                   /\ UNCHANGED desired
              ELSE /\ desired' = [desired EXCEPT ![t] =
                                    apply(call[t].op, r.expected, call[t].val)]
                   /\ UNCHANGED <<pc, ret>>
  /\ UNCHANGED <<T, call>>

\* ------------------------------------------------------ operation catalog
BitwiseOps == {"and", "xor", "or", "nand"}
AddSubOps  == {"add", "sub"}
Forms      == {"fetch_op", "op_fetch"}

\* atomic_fetch_{and,xor,or,nand} / atomic_{and,xor,or,nand}_fetch
bitwise_impl(form, ty) ==
  IF arithmetic_atomic_op(ty) THEN "builtin"
  ELSE IF form = "fetch_op" THEN "atomic_fetch_op" ELSE "atomic_op_fetch"

\* atomic_fetch_{add,sub} / atomic_{add,sub}_fetch: the generic overloads of
\* atomic_add_fetch and atomic_sub_fetch call Impl::atomic_fetch_op as well.
addsub_impl(form, ty) ==
  IF arithmetic_atomic_op(ty) THEN "builtin"
  ELSE "atomic_fetch_op"

\* mul, div, mod, min, max, lshift, rshift: the retry loop for every type.
loop_only_impl(form, ty) ==
  IF form = "fetch_op" THEN "atomic_fetch_op" ELSE "atomic_op_fetch"

catalog_all_loops(form, o, ty) == loop_only_impl(form, ty)

catalog_impl(form, o, ty) ==
  CASE o \in BitwiseOps -> bitwise_impl(form, ty)
    [] o \in AddSubOps  -> addsub_impl(form, ty)
    [] OTHER            -> loop_only_impl(form, ty)

saturating_fetch(o, m, v) ==
  LET s == IF o = "add" THEN (IF m + v > Modulus - 1 THEN Modulus - 1 ELSE m + v)
           ELSE IF o = "sub" THEN (IF m - v < 0 THEN 0 ELSE m - v)
           ELSE apply(o, m, v)
  IN  [mem |-> s, ret |-> m]

\* __atomic_fetch_<op>: returns the prior value.  __atomic_<op>_fetch: the new one.
fetch_builtin(o, m, v)    == [mem |-> apply(o, m, v), ret |-> m]
op_fetch_builtin(o, m, v) == [mem |-> apply(o, m, v), ret |-> apply(o, m, v)]

\* A catalog call on the arithmetic path: one hardware fetch-and-operate.
catalog_builtin(t, form, o, v) ==
  /\ ~T.volatile
  /\ catalog_impl(form, o, T) = "builtin"
  /\ LET r == IF form = "fetch_op" THEN fetch_builtin(o, mem, v)
                                   ELSE op_fetch_builtin(o, mem, v)
     IN  Returns(t, Call(form, "builtin", o, v, 0), r.mem, 0, 0, r.ret)

\* A catalog call served by the retry loop: entry and the initial load.
catalog_loop(t, form, o, v) ==
  /\ ~T.volatile
  /\ catalog_impl(form, o, T) # "builtin"
  /\ loop_begin(t, form, catalog_impl(form, o, T), o, v)

\* The entries that return nothing.  atomic_add and atomic_sub call
\* atomic_add_fetch and atomic_sub_fetch with their operand and drop the
\* result; atomic_increment and atomic_decrement call atomic_fetch_add and
\* atomic_fetch_sub with static_cast<T>(1).
VoidEntries == {"atomic_add", "atomic_sub", "atomic_increment", "atomic_decrement"}

void_forward(fn, v) ==
  CASE fn = "atomic_add"       -> [form |-> "op_fetch", op |-> "add", val |-> v]
    [] fn = "atomic_sub"       -> [form |-> "op_fetch", op |-> "sub", val |-> v]
    [] fn = "atomic_increment" -> [form |-> "fetch_op", op |-> "add", val |-> 1]
    [] fn = "atomic_decrement" -> [form |-> "fetch_op", op |-> "sub", val |-> 1]

\* A call of one of them: the catalog entry it forwards to, its result dropped.
atomic_void(t, fn, v) ==
  /\ ~T.volatile
  /\ LET e == void_forward(fn, v)
         i == catalog_impl(e.form, e.op, T)
         r == IF e.form = "fetch_op" THEN fetch_builtin(e.op, mem, e.val)
                                     ELSE op_fetch_builtin(e.op, mem, e.val)
     IN  IF i = "builtin"
         THEN Returns(t, Call(fn, i, e.op, e.val, 0), r.mem, 0, 0, 0)
         ELSE loop_begin(t, fn, i, e.op, e.val)

\* --------------------------------------------------------------- history
\* The target's value around the step thread t takes.
StepHist(t) ==
  /\ pre' = [pre EXCEPT ![t] = mem]
  /\ post' = [post EXCEPT ![t] = mem']

\* The store or exchange that was t's previous call, kept while t's next call
\* runs; NoWrite when the previous call was neither.
StoreHist(t) ==
  lastw' = [lastw EXCEPT ![t] =
              IF ~CanCall(t) THEN @
              ELSE IF pc[t] = "ret" /\ call[t].fn \in {"atomic_store", "atomic_exchange"}
                   THEN [fn |-> call[t].fn, val |-> call[t].val]
                   ELSE NoWrite]

\* fresh[u]: u is inside the retry loop and the target has not changed since
\* u last read it (its initial load or the refresh by its last failed attempt).
FreshHist(t) ==
  fresh' = [u \in Threads |->
              IF u = t THEN pc'[t] = "cas" ELSE fresh[u] /\ mem' = mem]

\* The order in which the calls take their final builtin step.
OrderHist(t) ==
  order' = IF pc'[t] = "ret" THEN Append(order, t) ELSE order

TickHist(t) ==
  tick' = IF pc'[t] = "ret" THEN ~tick ELSE tick

\* A call site: the entry point named, and the ordering arguments written.
CallSite(en, f, o, ord, fail) ==
  [entry |-> en, fn |-> f, op |-> o, order |-> ord, failure |-> fail]

\* No call site has been compiled or run.
NoSite == CallSite("none", "none", "none", "none", "none")

\* A call of the ordering-aware API with its Order template arguments.
ApiCall(f, o, ord, fail) == [fn |-> f, op |-> o, order |-> ord, failure |-> fail]

\* One invocation of a GCC __atomic builtin with its memory-order arguments.
Access(b, o, w, ord, fail) ==
  [builtin |-> b, op |-> o, weak |-> w, order |-> ord, failure |-> fail]

\* No view, no ordinary data and no execution space are in use.
NoView == [ptr |-> 0, heap |-> << >>, init |-> << >>, idx |-> << >>, elem |-> << >>]
NoMp   == [data |-> 0, msg |-> 0, src |-> "initial", seen |-> << >>,
           stage |-> << >>, ord |-> << >>, from |-> << >>, got |-> << >>]
NoAlloc == [records |-> << >>, hist |-> << >>, ret |-> 0,
            last |-> [fn |-> "none", ptr |-> 0, size |-> 0], thrown |-> FALSE]
NoExec == [instance |-> "null", context |-> 0, m_context |-> 0, asked |-> 0,
           last |-> "none", inits |-> 0, host |-> "idle", pos |-> 0,
           fence_futures |-> << >>, tasks |-> << >>, fenced |-> FALSE,
           hwloc |-> [available |-> FALSE, count |-> 0], ndebug |-> FALSE,
           A |-> << >>, h_A |-> << >>, in_copy |-> FALSE,
           copy |-> "none", torn |-> FALSE]

\* No call site is compiled; view, ordinary data and execution space stay as they are.
SiteIdle == UNCHANGED <<site, accepted, api, log, view, mp, exec, alloc>>

InitState ==
  /\ site = NoSite
  /\ accepted = FALSE
  /\ api = << >>
  /\ log = << >>
  /\ view = NoView
  /\ mp = NoMp
  /\ exec = NoExec /\ alloc = NoAlloc

Init0 ==
  /\ InitState
  /\ T \in ElemTypes
  /\ mem \in Values
  /\ pc = [t \in Threads |-> "idle"]
  /\ call = [t \in Threads |-> NoCall]
  /\ expected = [t \in Threads |-> 0]
  /\ desired = [t \in Threads |-> 0]
  /\ ret = [t \in Threads |-> 0]
  /\ pre = [t \in Threads |-> 0]
  /\ post = [t \in Threads |-> 0]
  /\ lastw = [t \in Threads |-> NoWrite]
  /\ order = << >>
  /\ fresh = [t \in Threads |-> FALSE]
  /\ calls = [t \in Threads |-> 0]
  /\ tick = FALSE

TypeOK ==
  /\ T \in ElemTypes
  /\ mem \in Values
  /\ pc \in [Threads -> {"idle", "cas", "ret"}]
  /\ expected \in [Threads -> Values]
  /\ desired \in [Threads -> Values]

\* ---------------------------------------- single caller, calls in sequence
SeqInit == Init0 /\ init0 = NoValue

SeqHist(t) ==
  /\ StepHist(t)
  /\ StoreHist(t)
  /\ UNCHANGED <<init0, order, fresh, calls, tick>>
  /\ SiteIdle

SeqNext ==
  \E t \in {1} :
    \/ atomic_load(t) /\ SeqHist(t)
    \/ \E v \in Values : atomic_store(t, v) /\ SeqHist(t)
    \/ \E v \in Values : atomic_exchange_explicit(t, v) /\ SeqHist(t)
    \/ \E v \in Values : atomic_exchange_generic(t, v) /\ SeqHist(t)
    \/ \E e, d \in Values : atomic_compare_exchange(t, e, d) /\ SeqHist(t)
    \/ \E e, d \in Values : atomic_compare_exchange_weak(t, e, d) /\ SeqHist(t)
    \/ \E f \in Forms, o \in Ops, v \in Values : catalog_builtin(t, f, o, v) /\ SeqHist(t)
    \/ \E f \in Forms, o \in Ops, v \in Values : catalog_loop(t, f, o, v) /\ SeqHist(t)
    \/ \E fn \in VoidEntries, v \in Values : atomic_void(t, fn, v) /\ SeqHist(t)
    \/ loop_attempt(t) /\ SeqHist(t)

SeqSpec == SeqInit /\ [][SeqNext]_vars

\* ------------------------------- concurrent callers, one call per thread
Init == Init0 /\ init0 = mem

ConcHist(t) ==
  /\ StepHist(t)
  /\ OrderHist(t)
  /\ UNCHANGED <<init0, lastw, fresh, calls, tick>>
  /\ SiteIdle

Next ==
  \E t \in Threads :
    \/ pc[t] = "idle" /\ atomic_load(t) /\ ConcHist(t)
    \/ pc[t] = "idle" /\ \E v \in Operands : atomic_store(t, v) /\ ConcHist(t)
    \/ pc[t] = "idle" /\ \E v \in Operands : atomic_exchange_explicit(t, v) /\ ConcHist(t)
    \/ pc[t] = "idle" /\ \E v \in Operands : atomic_exchange_generic(t, v) /\ ConcHist(t)
    \/ pc[t] = "idle" /\ \E e \in Values, d \in Operands :
                           atomic_compare_exchange(t, e, d) /\ ConcHist(t)
    \/ pc[t] = "idle" /\ \E e \in Values, d \in Operands :
                           atomic_compare_exchange_weak(t, e, d) /\ ConcHist(t)
    \/ pc[t] = "idle" /\ \E f \in Forms, o \in Ops, v \in Operands :
                           catalog_builtin(t, f, o, v) /\ ConcHist(t)
    \/ pc[t] = "idle" /\ \E f \in Forms, o \in Ops, v \in Operands :
                           catalog_loop(t, f, o, v) /\ ConcHist(t)
    \/ loop_attempt(t) /\ ConcHist(t)

Spec == Init /\ [][Next]_vars

\* --------------- N threads, M calls each of atomic_fetch_add(p, 1), generic T
CounterInit == Init0 /\ init0 = mem /\ generic_atomic_op(T)

CounterHist == UNCHANGED <<init0, pre, post, lastw, order, fresh, tick>> /\ SiteIdle

CounterCall(t) ==
  /\ calls[t] < MaxCalls
  /\ catalog_loop(t, "fetch_op", "add", 1)
  /\ calls' = [calls EXCEPT ![t] = @ + 1]
  /\ CounterHist

CounterAttempt(t) == loop_attempt(t) /\ UNCHANGED calls /\ CounterHist

CounterNext == \E t \in Threads : CounterCall(t) \/ CounterAttempt(t)

\* Scheduling: a thread that can take a step eventually takes one, and a weak
\* compare-exchange whose comparison keeps succeeding does not fail
\* spuriously for ever.
CounterFair ==
  \A t \in Threads :
    /\ WF_vars(CounterCall(t) \/ CounterAttempt(t))
    /\ WF_vars(CounterAttempt(t) /\ pc'[t] = "ret")

CounterSpec == CounterInit /\ [][CounterNext]_vars /\ CounterFair

\* ----------------- retry loops against writers that may go on for ever
LiveOps == {"add", "max"}

LiveInit == Init0 /\ init0 = NoValue

LiveHist(t) ==
  /\ FreshHist(t)
  /\ TickHist(t)
  /\ UNCHANGED <<init0, pre, post, lastw, order, calls>>
  /\ SiteIdle

LiveAttempt(t) == loop_attempt(t) /\ LiveHist(t)

LiveNext ==
  \E t \in Threads :
    \/ \E v \in Operands : atomic_store(t, v) /\ LiveHist(t)
    \/ \E f \in Forms, o \in LiveOps, v \in Operands : catalog_builtin(t, f, o, v) /\ LiveHist(t)
    \/ \E f \in Forms, o \in LiveOps, v \in Operands : catalog_loop(t, f, o, v) /\ LiveHist(t)
    \/ LiveAttempt(t)

\* Scheduling: a thread inside the retry loop keeps taking steps, and a weak
\* compare-exchange whose comparison keeps succeeding does not fail
\* spuriously for ever.  Callers are not obliged to issue further calls.
LiveFair ==
  \A t \in Threads :
    /\ WF_vars(LiveAttempt(t))
    /\ WF_vars(LiveAttempt(t) /\ pc'[t] = "ret")

LiveSpec == LiveInit /\ [][LiveNext]_vars /\ LiveFair

\* ------------- one retry loop against writers that overtake every attempt
\* The thread whose fetch-op / op-fetch call is watched.
Victim == CHOOSE t \in Threads : \A u \in Threads : t <= u

StarveInit == LiveInit

\* The watched thread calls a catalog operation that the retry loop serves.
StarveEnter ==
  /\ pc[Victim] = "idle"
  /\ \E f \in Forms, o \in LiveOps, v \in Operands : catalog_loop(Victim, f, o, v)
  /\ LiveHist(Victim)

\* The schedule lets it test the loop condition when the target differs from
\* its expected.
StarveAttempt ==
  /\ mem # expected[Victim]
  /\ LiveAttempt(Victim)

\* Another thread's atomic_store changes the target once the watched thread
\* has read it.
StarveStore(u) ==
  /\ InLoop(Victim) /\ mem = expected[Victim]
  /\ \E v \in Operands : atomic_store(u, v) /\ mem' # mem
  /\ LiveHist(u)

\* Another thread's builtin fetch-op / op-fetch does the same.
StarveFetchOp(u) ==
  /\ InLoop(Victim) /\ mem = expected[Victim]
  /\ \E f \in Forms, o \in LiveOps, v \in Operands :
       catalog_builtin(u, f, o, v) /\ mem' # mem
  /\ LiveHist(u)

StarveWrite == \E u \in Threads \ {Victim} : StarveStore(u) \/ StarveFetchOp(u)

StarveNext ==
  \/ StarveEnter
  \/ StarveAttempt
  \/ \E u \in Threads \ {Victim} : StarveStore(u)
  \/ \E u \in Threads \ {Victim} : StarveFetchOp(u)

\* Every party keeps running: the watched thread, and the writers.
StarveFair ==
  /\ WF_vars(StarveEnter)
  /\ WF_vars(StarveAttempt)
  /\ WF_vars(StarveWrite)

StarveSpec == StarveInit /\ [][StarveNext]_vars /\ StarveFair

\* ------------------------------------ one caller, call sites with orderings
\* The caller may fail spuriously at most until the log holds MaxLog builtins.
MaxLog == 3

Primitives == {"atomic_load", "atomic_store", "atomic_exchange",
               "atomic_compare_exchange", "atomic_compare_exchange_weak"}

\* The static_assert on the Order arguments in the body of each primitive.
order_assert(fn, o, f) ==
  CASE fn = "atomic_load"         -> valid_atomic_load_order(o)
    [] fn = "atomic_store"        -> valid_atomic_store_order(o)
    [] fn = "atomic_exchange"     -> valid_memory_order(o)
    [] fn = "atomic_thread_fence" -> valid_memory_order(o)
    [] fn \in {"atomic_compare_exchange", "atomic_compare_exchange_weak"} ->
         valid_atomic_compare_exchange_order(o, f)

\* The orders Impl::atomic_fetch_op / atomic_op_fetch pass on: the initial
\* load is relaxed, the compare-exchange takes the caller's order on success
\* and relaxed on failure.
loop_load_release == MemoryOrderRelease

loop_load_order == MemoryOrderRelaxed
loop_failure_acquire == MemoryOrderAcquire

loop_failure_order == MemoryOrderRelaxed

\* A fetch-op / op-fetch entry point instantiates: an overload is enabled,
\* its own static_assert holds and, when it forwards to the retry loop, so do
\* the static_asserts of Impl, of atomic_load and of atomic_compare_exchange_weak.
catalog_assert(form, o, ty, ord) ==
  /\ IF o \in BitwiseOps \cup AddSubOps THEN Cardinality(ArithmeticOverloads(ty)) = 1
                                        ELSE ~ty.volatile
  /\ valid_memory_order(ord)
  /\ catalog_impl(form, o, ty) # "builtin" =>
       /\ valid_memory_order(ord)
       /\ Cardinality(Overloads(ty)) = 1
       /\ order_assert("atomic_load", loop_load_order, "none")
       /\ order_assert("atomic_compare_exchange_weak", ord, loop_failure_order)

\* The builtin an overload names: the _n form on the explicit path, the
\* by-address form on the generic path.
Builtin(explicit, generic, ty) == IF explicit_atomic_op(ty) THEN explicit ELSE generic

\* The call c compiles for element type ty: one viable overload, no static_assert.
Compiles(c, ty) ==
  CASE c.fn = "atomic_thread_fence" -> order_assert(c.fn, c.order, c.failure)
    [] c.fn \in Primitives -> Cardinality(Overloads(ty)) = 1 /\ order_assert(c.fn, c.order, c.failure)
    [] c.fn \in Forms      -> catalog_assert(c.fn, c.op, ty, c.order)

SiteHist == UNCHANGED <<init0, pre, post, lastw, order, fresh, calls, tick, view, mp, exec, alloc>>

\* The call site is ill-formed: nothing runs.
Rejected ==
  /\ accepted' = FALSE
  /\ api' = << >>
  /\ log' = << >>
  /\ UNCHANGED <<T, mem, pc, call, expected, desired, ret>>

\* The API call c with value argument v and *expected = e, made by caller t:
\* what it does to the target and which builtin it invokes with which orders.
\* Each behaviour compiles and runs one call site, from any type and value.
Perform(t, c, v, e) ==
  /\ site = NoSite
  /\ CanCall(t)
  /\ IF ~Compiles(c, T) THEN Rejected
     ELSE
       /\ accepted' = TRUE
       /\ api' = <<c>>
       /\ \/ /\ c.fn = "atomic_load"
             /\ atomic_load(t)
             /\ log' = <<Access(Builtin("__atomic_load_n", "__atomic_load", T),
                                "none", FALSE, c.order, "none")>>
          \/ /\ c.fn = "atomic_store"
             /\ atomic_store(t, v)
             /\ log' = <<Access(Builtin("__atomic_store_n", "__atomic_store", T),
                                "none", FALSE, c.order, "none")>>
          \/ /\ c.fn = "atomic_exchange"
             /\ atomic_exchange_explicit(t, v)
             /\ log' = <<Access("__atomic_exchange_n", "none", FALSE, c.order, "none")>>
          \/ /\ c.fn = "atomic_exchange"
             /\ atomic_exchange_generic(t, v)
             /\ log' = <<Access("__atomic_store", "none", FALSE, c.order, "none")>>
          \/ /\ c.fn = "atomic_compare_exchange"
             /\ atomic_compare_exchange(t, e, v)
             /\ log' = <<Access(Builtin("__atomic_compare_exchange_n",
                                        "__atomic_compare_exchange", T),
                                "none", FALSE, c.order, c.failure)>>
          \/ /\ c.fn = "atomic_compare_exchange_weak"
             /\ atomic_compare_exchange_weak(t, e, v)
             /\ log' = <<Access(Builtin("__atomic_compare_exchange_n",
                                        "__atomic_compare_exchange", T),
                                "none", TRUE, c.order, c.failure)>>
          \/ /\ c.fn = "atomic_thread_fence"
             /\ log' = <<Access("__atomic_thread_fence", "none", FALSE, c.order, "none")>>
             /\ UNCHANGED <<T, mem, pc, call, expected, desired, ret>>
          \/ /\ c.fn \in Forms
             /\ catalog_builtin(t, c.fn, c.op, v)
             /\ log' = <<Access(IF c.fn = "fetch_op" THEN "__atomic_fetch_op"
                                                     ELSE "__atomic_op_fetch",
                                c.op, FALSE, c.order, "none")>>
          \/ /\ c.fn \in Forms
             /\ catalog_loop(t, c.fn, c.op, v)
             /\ log' = <<Access(Builtin("__atomic_load_n", "__atomic_load", T),
                                "none", FALSE, loop_load_order, "none")>>

\* A call site that names load, store or exchange and passes an Order argument.
site_primitive(t) ==
  \E fn \in {"atomic_load", "atomic_store", "atomic_exchange"},
     ord \in OrderArgs, v \in Operands :
    /\ site' = CallSite("api", fn, "none", ord, "none")
    /\ Perform(t, ApiCall(fn, "none", ord, "none"), v, 0)
    /\ SiteHist

\* A call site that names a compare-exchange and passes both Order arguments.
site_compare_exchange(t) ==
  \E fn \in {"atomic_compare_exchange", "atomic_compare_exchange_weak"},
     ord \in OrderArgs, fail \in OrderArgs, d \in Operands, e \in Values :
    /\ site' = CallSite("api", fn, "none", ord, fail)
    /\ Perform(t, ApiCall(fn, "none", ord, fail), d, e)
    /\ SiteHist

site_fence(t) ==
  \E ord \in OrderArgs :
    /\ site' = CallSite("api", "atomic_thread_fence", "none", ord, "none")
    /\ Perform(t, ApiCall("atomic_thread_fence", "none", ord, "none"), 0, 0)
    /\ SiteHist

\* A call site that names a fetch-op / op-fetch entry point.
site_catalog(t) ==
  \E form \in Forms, o \in Ops, ord \in OrderArgs, v \in Operands :
    /\ site' = CallSite("api", form, o, ord, "none")
    /\ Perform(t, ApiCall(form, o, ord, "none"), v, 0)
    /\ SiteHist

\* One more evaluation of the while test of the retry loop the site entered.
site_attempt(t) ==
  /\ loop_attempt(t)
  /\ Len(log) < MaxLog \/ pc'[t] = "ret"
  /\ log' = Append(log, Access(Builtin("__atomic_compare_exchange_n",
                                       "__atomic_compare_exchange", T),
                               "none", TRUE, api[Len(api)].order, loop_failure_order))
  /\ UNCHANGED <<site, accepted, api>>
  /\ SiteHist

\* Another thread stores to the target while the caller is inside the loop.
site_interfere(u) ==
  /\ InLoop(1)
  /\ Len(log) < MaxLog
  /\ \E v \in Operands : atomic_store(u, v) /\ mem' # mem
  /\ SiteIdle
  /\ SiteHist

\* --------------------------------------------- AtomicDataElement (the proxy)
proxy_order_default == MemoryOrderAcqRel

\* Every operator of the proxy passes memory_order_relaxed.
proxy_order == MemoryOrderRelaxed

\* The operators that read the target and combine the value with the operand,
\* and the conversion to the value type.
ProxyLoading == {"+", "-", "*", "/", "%", "!", "&&", "||", "&", "|", "^", "~",
                 "<<", ">>", "==", "!=", ">=", "<=", "<", ">", "value"}

ProxyOperators ==
  {"=", "inc", "dec", "++x", "--x", "x++", "x--",
   "+=", "-=", "*=", "/=", "%=", "&=", "^=", "|=", "<<=", ">>="} \cup ProxyLoading

\* The operators whose operand is the constant one.
ProxyUnit == {"inc", "dec", "++x", "--x", "x++", "x--"}

\* The one call of the ordering-aware API in the body of the operator
\* (inc and dec call atomic_increment / atomic_decrement, which are
\* atomic_fetch_add / atomic_fetch_sub of one with the same order).
proxy_call(opr) ==
  CASE opr = "="   -> ApiCall("atomic_store", "none", proxy_order, "none")
    [] opr = "inc" -> ApiCall("fetch_op", "add", proxy_order, "none")
    [] opr = "dec" -> ApiCall("fetch_op", "sub", proxy_order, "none")
    [] opr = "++x" -> ApiCall("op_fetch", "add", proxy_order, "none")
    [] opr = "--x" -> ApiCall("op_fetch", "sub", proxy_order, "none")
    [] opr = "x++" -> ApiCall("fetch_op", "add", proxy_order, "none")
    [] opr = "x--" -> ApiCall("fetch_op", "sub", proxy_order, "none")
    [] opr = "+="  -> ApiCall("op_fetch", "add", proxy_order, "none")
    [] opr = "-="  -> ApiCall("op_fetch", "sub", proxy_order, "none")
    [] opr = "*="  -> ApiCall("op_fetch", "mul", proxy_order, "none")
    [] opr = "/="  -> ApiCall("op_fetch", "div", proxy_order, "none")
    [] opr = "%="  -> ApiCall("op_fetch", "mod", proxy_order, "none")
    [] opr = "&="  -> ApiCall("op_fetch", "and", proxy_order, "none")
    [] opr = "^="  -> ApiCall("op_fetch", "xor", proxy_order, "none")
    [] opr = "|="  -> ApiCall("op_fetch", "or", proxy_order, "none")
    [] opr = "<<=" -> ApiCall("op_fetch", "lshift", proxy_order, "none")
    [] opr = ">>=" -> ApiCall("op_fetch", "rshift", proxy_order, "none")
    [] opr \in ProxyLoading -> ApiCall("atomic_load", "none", proxy_order, "none")

\* A use of an operator of the proxy bound to the target.
site_proxy(t) ==
  \E opr \in ProxyOperators, v \in Operands :
    /\ opr \in ProxyUnit => v = 1
    /\ site' = CallSite("proxy", opr, "none", "none", "none")
    /\ Perform(t, proxy_call(opr), v, 0)
    /\ SiteHist

\* ------------------------------------- legacy shims (volatile T*, no order)
\* The default argument each ordering-aware function declares for Order.
default_order(fn) ==
  CASE fn = "atomic_load"     -> MemoryOrderAcquire
    [] fn = "atomic_store"    -> MemoryOrderRelease
    [] fn = "atomic_exchange" -> MemoryOrderAcqRel
    [] fn \in Forms           -> MemoryOrderAcqRel

\* The shims that forward without an order argument, by the call in their body:
\* atomic_assign calls atomic_store, atomic_exchange calls atomic_exchange,
\* atomic_fetch_<op> and atomic_<op>_fetch call the function of the same name,
\* and so do the void shims.  fn is the ordering-aware function of that name
\* (for a void one, the catalog entry it forwards to); there is no
\* ordering-aware atomic_and or atomic_or: their fn is "none".
LegacyShims ==
  {[name |-> "atomic_assign", fn |-> "atomic_store", op |-> "none"],
   [name |-> "atomic_exchange", fn |-> "atomic_exchange", op |-> "none"]}
  \cup {[name |-> "atomic_fetch_op", fn |-> "fetch_op", op |-> o] :
          o \in Ops \ {"nand"}}
  \cup {[name |-> "atomic_op_fetch", fn |-> "op_fetch", op |-> o] :
          o \in Ops \ {"nand", "add", "sub"}}
  \cup {[name |-> n, fn |-> void_forward(n, 1).form, op |-> void_forward(n, 1).op] :
          n \in VoidEntries}
  \cup {[name |-> "atomic_and", fn |-> "none", op |-> "and"],
        [name |-> "atomic_or", fn |-> "none", op |-> "or"]}

\* A legacy call on a volatile T* (T is the deduced, unqualified element
\* type).  The body calls f( const_cast<T*>(ptr), val ) with no order.  Order
\* is a template parameter that only the omitted argument could deduce, so
\* either the declared default order is taken, or the ordering-aware overload
\* is not viable: then atomic_assign, which has no other atomic_store to
\* call, is ill-formed, and a shim that shares its name with the function it
\* calls resolves to itself and never reaches the target.
site_legacy(t) ==
  \E shim \in LegacyShims, v \in Operands :
    /\ ~T.volatile
    /\ site' = CallSite("legacy", shim.name, shim.op, "none", "none")
    /\ \/ /\ shim.fn # "none"
          /\ Perform(t, ApiCall(shim.fn, shim.op, default_order(shim.fn), "none"),
                     IF shim.name \in VoidEntries
                       THEN void_forward(shim.name, v).val ELSE v, 0)
       \/ /\ site = NoSite
          /\ CanCall(t)
          /\ shim.name = "atomic_assign"
          /\ Rejected
       \/ /\ site = NoSite
          /\ CanCall(t)
          /\ shim.name # "atomic_assign"
          /\ accepted' = TRUE
          /\ api' = << >>
          /\ log' = << >>
          /\ pc' = [pc EXCEPT ![t] = "recursing"]
          /\ call' = [call EXCEPT ![t] = Call(shim.name, "shim", shim.op, v, 0)]
          /\ UNCHANGED <<T, mem, expected, desired, ret>>
    /\ SiteHist

SiteInit ==
  /\ InitState
  /\ T \in AllTypes
  /\ mem \in Values
  /\ pc = [t \in Threads |-> "idle"]
  /\ call = [t \in Threads |-> NoCall]
  /\ expected = [t \in Threads |-> 0]
  /\ desired = [t \in Threads |-> 0]
  /\ ret = [t \in Threads |-> 0]
  /\ init0 = NoValue
  /\ pre = [t \in Threads |-> 0]
  /\ post = [t \in Threads |-> 0]
  /\ lastw = [t \in Threads |-> NoWrite]
  /\ order = << >>
  /\ fresh = [t \in Threads |-> FALSE]
  /\ calls = [t \in Threads |-> 0]
  /\ tick = FALSE

SiteNext ==
  \E t \in {1} :
    \/ site_primitive(t)
    \/ site_compare_exchange(t)
    \/ site_fence(t)
    \/ site_catalog(t)
    \/ site_proxy(t)
    \/ site_legacy(t)
    \/ site_attempt(t)
    \/ \E u \in Threads \ {t} : site_interfere(u)

SiteSpec == SiteInit /\ [][SiteNext]_vars

\* ------------------------------------------------------------ atomic view
\* The elements behind an AtomicViewDataHandle, and the proxies that threads
\* obtain from it; every thread makes one call through its proxy.
MaxIndex == 1
Indexes == 0 .. MaxIndex
NoIndex == MaxIndex + 1

\* AtomicViewDataHandle::operator[](i): the proxy holds ptr + i.
index_ignored(p, i) == p

data_handle_index(p, i) == p + i

\* The operators of the proxy used on the elements: =, the conversion to
\* value, += and ^= (op-fetch), and the fetch forms called with the
\* proxy's pointer.
ElementOps == {"add", "xor", "max"}

ViewInit ==
  /\ T \in ElemTypes
  /\ mem = 0
  /\ init0 = 0
  /\ pc = [t \in Threads |-> "idle"]
  /\ call = [t \in Threads |-> NoCall]
  /\ expected = [t \in Threads |-> 0]
  /\ desired = [t \in Threads |-> 0]
  /\ ret = [t \in Threads |-> 0]
  /\ pre = [t \in Threads |-> 0]
  /\ post = [t \in Threads |-> 0]
  /\ lastw = [t \in Threads |-> NoWrite]
  /\ order = << >>
  /\ fresh = [t \in Threads |-> FALSE]
  /\ calls = [t \in Threads |-> 0]
  /\ tick = FALSE
  /\ site = NoSite /\ accepted = FALSE /\ api = << >> /\ log = << >>
  /\ mp = NoMp /\ exec = NoExec /\ alloc = NoAlloc
  /\ \E p \in Indexes, v \in Values :
       LET h == [a \in 0 .. 2 * MaxIndex |-> (v + a) % Modulus]
       IN
       view = [ptr |-> p, heap |-> h, init |-> h,
               idx |-> [t \in Threads |-> NoIndex],
               elem |-> [t \in Threads |-> 0]]

\* Thread t takes the proxy of element i from the handle.
handle_index(t, i) ==
  /\ pc[t] = "idle" /\ view.idx[t] = NoIndex
  /\ view' = [view EXCEPT !.idx[t] = i,
                          !.elem[t] = data_handle_index(view.ptr, i)]
  /\ UNCHANGED <<T, mem, pc, call, expected, desired, ret,
                 init0, pre, post, lastw, order, fresh, calls, tick,
                 site, accepted, api, log, mp, exec, alloc>>

\* The element thread t's proxy points to.
Element(t) == view.heap[view.elem[t]]

\* A step of t's call on the object at the proxy's pointer, which becomes m.
ElementStep(t, m) ==
  /\ view' = [view EXCEPT !.heap[view.elem[t]] = m]
  /\ pre' = [pre EXCEPT ![t] = Element(t)]
  /\ post' = [post EXCEPT ![t] = m]
  /\ OrderHist(t)
  /\ UNCHANGED <<T, mem, init0, lastw, fresh, calls, tick,
                 site, accepted, api, log, mp, exec, alloc>>

\* A call through the proxy that is served by a single builtin.
ElementReturns(t, c, m, r) ==
  /\ pc[t] = "idle" /\ view.idx[t] # NoIndex
  /\ call' = [call EXCEPT ![t] = c]
  /\ ret' = [ret EXCEPT ![t] = r]
  /\ pc' = [pc EXCEPT ![t] = "ret"]
  /\ UNCHANGED <<expected, desired>>
  /\ ElementStep(t, m)

\* operator const_value_type: atomic_load(ptr, relaxed).
element_load(t) ==
  ElementReturns(t, Call("atomic_load", "builtin", "none", 0, 0),
                 Element(t), load_builtin(Element(t)))

\* operator=: atomic_store(ptr, val, relaxed).
element_store(t, v) ==
  ElementReturns(t, Call("atomic_store", "builtin", "none", v, 0),
                 store_builtin(Element(t), v), v)

\* A catalog call on ptr, on the arithmetic path.
element_builtin(t, form, o, v) ==
  /\ catalog_impl(form, o, T) = "builtin"
  /\ LET r == IF form = "fetch_op" THEN fetch_builtin(o, Element(t), v)
                                   ELSE op_fetch_builtin(o, Element(t), v)
     IN  ElementReturns(t, Call(form, "builtin", o, v, 0), r.mem, r.ret)

\* A catalog call on ptr served by Impl::atomic_fetch_op or
\* Impl::atomic_op_fetch: the initial load of *ptr.
element_loop(t, form, o, v) ==
  /\ pc[t] = "idle" /\ view.idx[t] # NoIndex
  /\ catalog_impl(form, o, T) # "builtin"
  /\ OpDefined(o, v)
  /\ call' = [call EXCEPT ![t] = Call(form, catalog_impl(form, o, T), o, v, 0)]
  /\ expected' = [expected EXCEPT ![t] = load_builtin(Element(t))]
  /\ desired' = [desired EXCEPT ![t] = apply(o, load_builtin(Element(t)), v)]
  /\ pc' = [pc EXCEPT ![t] = "cas"]
  /\ UNCHANGED ret
  /\ ElementStep(t, Element(t))

\* One compare-exchange of the loop, on *ptr.
element_attempt(t) ==
  /\ pc[t] = "cas"
  /\ \E spurious \in BOOLEAN :
       LET r == weak_compare_exchange(Element(t), expected[t], desired[t], spurious)
       IN  /\ expected' = [expected EXCEPT ![t] = r.expected]
           /\ IF r.ok
              THEN /\ pc' = [pc EXCEPT ![t] = "ret"]
                   /\ ret' = [ret EXCEPT ![t] =
                                IF call[t].impl = "atomic_fetch_op"
                                THEN fetch_op_result(expected[t], desired[t])
                                ELSE op_fetch_result(expected[t], desired[t])]
                   /\ UNCHANGED desired
              ELSE /\ desired' = [desired EXCEPT ![t] =
                                    apply(call[t].op, r.expected, call[t].val)]
                   /\ UNCHANGED <<pc, ret>>
           /\ ElementStep(t, r.mem)
  /\ UNCHANGED call

ViewNext ==
  \E t \in Threads :
    \/ \E i \in Indexes : handle_index(t, i)
    \/ element_load(t)
    \/ \E v \in Operands : element_store(t, v)
    \/ \E f \in Forms, o \in ElementOps, v \in Operands : element_builtin(t, f, o, v)
    \/ \E f \in Forms, o \in ElementOps, v \in Operands : element_loop(t, f, o, v)
    \/ element_attempt(t)

ViewSpec == ViewInit /\ [][ViewNext]_vars

\* --------------------------------------------------------- message passing
\* Thread 1 writes an ordinary (non-atomic) datum and then stores to the
\* target; the other threads load the target and then read the datum.
MaxWrites == 2
Publisher == 1
Consumers == Threads \ {Publisher}

order_value_relaxed(o) == "__ATOMIC_RELAXED"

\* Order::value: the memory model constant the marker type hands to the builtin.
order_value(o) ==
  CASE o = MemoryOrderRelaxed -> "__ATOMIC_RELAXED"
    [] o = MemoryOrderAcquire -> "__ATOMIC_ACQUIRE"
    [] o = MemoryOrderRelease -> "__ATOMIC_RELEASE"
    [] o = MemoryOrderAcqRel  -> "__ATOMIC_ACQ_REL"
    [] o = MemoryOrderSeqCst  -> "__ATOMIC_SEQ_CST"

\* What a builtin called with the memory model constant m does: a release
\* operation publishes what its thread has written before it, an acquire
\* operation takes over what was published with the value it reads.
releases(m) == m \in {"__ATOMIC_RELEASE", "__ATOMIC_ACQ_REL", "__ATOMIC_SEQ_CST"}
acquires(m) == m \in {"__ATOMIC_ACQUIRE", "__ATOMIC_ACQ_REL", "__ATOMIC_SEQ_CST"}

\* The datum is written data times, the k-th write leaving the value k;
\* seen[t] is the last write thread t is bound to observe, msg the one
\* published with the target's present value and src where that value came from.
MpInit ==
  /\ T \in ElemTypes
  /\ mem \in Values
  /\ init0 = mem
  /\ pc = [t \in Threads |-> "idle"]
  /\ call = [t \in Threads |-> NoCall]
  /\ expected = [t \in Threads |-> 0]
  /\ desired = [t \in Threads |-> 0]
  /\ ret = [t \in Threads |-> 0]
  /\ pre = [t \in Threads |-> 0]
  /\ post = [t \in Threads |-> 0]
  /\ lastw = [t \in Threads |-> NoWrite]
  /\ order = << >>
  /\ fresh = [t \in Threads |-> FALSE]
  /\ calls = [t \in Threads |-> 0]
  /\ tick = FALSE
  /\ site = NoSite /\ accepted = FALSE /\ api = << >> /\ log = << >>
  /\ view = NoView /\ exec = NoExec /\ alloc = NoAlloc
  /\ mp = [data |-> 0, msg |-> 0, src |-> "initial",
           seen |-> [t \in Threads |-> 0],
           stage |-> [t \in Threads |-> "start"],
           ord |-> [t \in Threads |-> "none"],
           from |-> [t \in Threads |-> "none"],
           got |-> [t \in Threads |-> 0]]

MpHist(t) ==
  /\ StepHist(t)
  /\ OrderHist(t)
  /\ UNCHANGED <<init0, lastw, fresh, calls, tick,
                 site, accepted, api, log, view, exec, alloc>>

MpIdle ==
  UNCHANGED <<T, mem, pc, call, expected, desired, ret,
              init0, pre, post, lastw, order, fresh, calls, tick,
              site, accepted, api, log, view, exec, alloc>>

\* The publisher writes the datum: an ordinary store.
ordinary_write ==
  /\ mp.stage[Publisher] = "start" /\ mp.data < MaxWrites
  /\ mp' = [mp EXCEPT !.data = @ + 1, !.seen[Publisher] = mp.data + 1]
  /\ MpIdle

\* atomic_store(ptr, v, o): __atomic_store(_n)(ptr, v, Order::value).
publish(v, o) ==
  /\ mp.stage[Publisher] = "start"
  /\ valid_atomic_store_order(o)
  /\ atomic_store(Publisher, v)
  /\ mp' = [mp EXCEPT !.stage[Publisher] = "stored",
                      !.ord[Publisher] = o,
                      !.src = "store",
                      !.msg = IF releases(order_value(o))
                              THEN mp.seen[Publisher] ELSE 0]
  /\ MpHist(Publisher)

\* atomic_load(ptr, o): __atomic_load(_n)(ptr, Order::value).
consume(u, o) ==
  /\ mp.stage[u] = "start"
  /\ valid_atomic_load_order(o)
  /\ atomic_load(u)
  /\ mp' = [mp EXCEPT !.stage[u] = "loaded",
                      !.ord[u] = o,
                      !.from[u] = mp.src,
                      !.seen[u] = IF acquires(order_value(o)) /\ mp.msg > @
                                  THEN mp.msg ELSE @]
  /\ MpHist(u)

\* The consumer reads the datum: an ordinary load, which returns a write
\* not older than the last one the thread is bound to observe (unordered
\* with the publisher's writes it may return any of them).
ordinary_read(u) ==
  /\ mp.stage[u] = "loaded"
  /\ \E k \in mp.seen[u] .. mp.data :
       mp' = [mp EXCEPT !.stage[u] = "read", !.got[u] = k]
  /\ MpIdle

MpNext ==
  \/ ordinary_write
  \/ \E v \in Operands, o \in MemoryOrders : publish(v, o)
  \/ \E u \in Consumers, o \in MemoryOrders : consume(u, o)
  \/ \E u \in Consumers : ordinary_read(u)

MpSpec == MpInit /\ [][MpNext]_vars

\* ----------------------------------------------- StdExecutors execution space
\* The host thread initializes and finalizes the default execution space,
\* dispatches parallel_for over ranges, and fences; the threads of the
\* execution context run the functor invocations.
MaxThreads == 2
MaxRange == 2
MaxDispatch == 2
MaxInits == 2
MaxBegin == 1
DefaultThreads == 8
ThreadCounts == -1 .. MaxThreads

\* if(thread_count <= 0): the hwloc product when hwloc is available, else 8.
resolve_thread_count(n, hwloc) ==
  IF n <= 0
  THEN (IF hwloc.available THEN hwloc.count ELSE DefaultThreads)
  ELSE n

\* s_default_context after initialize: created with thread_count only when
\* it is null, kept otherwise.
default_context(ctx, n) == IF ctx = 0 THEN n ELSE ctx

always_initialized(inst) == TRUE

\* is_initialized(): bool(s_default_instance).
is_initialized_of(inst) == inst # "null"

is_initialized == is_initialized_of(exec.instance)

\* StdExecutorsImpl::in_parallel(): not fence_futures.empty().
in_parallel == exec.fence_futures # << >>

get_returns_at_once(task) == TRUE

\* future::get() returns once all invocations of the bulk execution are done.
future_ready(task) == task.left = 0

\* The indexes a RangePolicy [begin, end) can hold: the extent of the views
\* A and h_A, which the program fills with 0 before it dispatches.
RangeIndexes == 0 .. MaxBegin + MaxRange - 1

index_without_offset(offset, n) == n

\* The index the lambda handed to bulk_twoway_execute passes to the
\* functor for the n-th invocation: offset + n, offset = m_policy.begin().
functor_index(offset, n) == offset + n

\* No invocation of a functor dispatched on the present instance is pending.
work_pending ==
  \E k \in DOMAIN exec.tasks :
    exec.tasks[k].gen = exec.inits /\ exec.tasks[k].left > 0

ExecInit ==
  /\ T \in ElemTypes
  /\ mem = 0
  /\ init0 = 0
  /\ pc = [t \in Threads |-> "idle"]
  /\ call = [t \in Threads |-> NoCall]
  /\ expected = [t \in Threads |-> 0]
  /\ desired = [t \in Threads |-> 0]
  /\ ret = [t \in Threads |-> 0]
  /\ pre = [t \in Threads |-> 0]
  /\ post = [t \in Threads |-> 0]
  /\ lastw = [t \in Threads |-> NoWrite]
  /\ order = << >>
  /\ fresh = [t \in Threads |-> FALSE]
  /\ calls = [t \in Threads |-> 0]
  /\ tick = FALSE
  /\ site = NoSite /\ accepted = FALSE /\ api = << >> /\ log = << >>
  /\ view = NoView /\ mp = NoMp /\ alloc = NoAlloc
  /\ \E a \in BOOLEAN, c \in 1 .. MaxThreads + 1, nd \in BOOLEAN :
       exec = [NoExec EXCEPT !.hwloc = [available |-> a, count |-> c],
                             !.ndebug = nd,
                             !.A = [i \in RangeIndexes |-> 0],
                             !.h_A = [i \in RangeIndexes |-> 0]]

ExecOnly ==
  UNCHANGED <<T, mem, pc, call, expected, desired, ret,
              init0, pre, post, lastw, order, fresh, calls, tick,
              site, accepted, api, log, view, mp, alloc>>

\* StdExecutors::initialize(thread_count).  The assert stops the program when
\* the space is initialized already (it is compiled out under NDEBUG, and the
\* instance is then replaced).  The new instance's m_context is s_default_context.
initialize(n) ==
  /\ exec.host = "idle" /\ exec.inits < MaxInits
  /\ IF exec.instance # "null" /\ ~exec.ndebug
     THEN exec' = [exec EXCEPT !.host = "aborted"]
     ELSE LET tc  == resolve_thread_count(n, exec.hwloc)
              ctx == default_context(exec.context, tc)
          IN  exec' = [exec EXCEPT !.instance = "live",
                                   !.context = ctx,
                                   !.m_context = ctx,
                                   !.asked = tc,
                                   !.last = "initialize",
                                   !.inits = @ + 1,
                                   !.fence_futures = << >>,
                                   !.fenced = FALSE]
  /\ ExecOnly

\* StdExecutors::finalize(): s_default_instance = nullptr and nothing else;
\* the instance goes with its list of futures, s_default_context stays.
finalize ==
  /\ exec.host = "idle"
  /\ exec' = [exec EXCEPT !.instance = "null",
                          !.m_context = 0,
                          !.last = "finalize",
                          !.fence_futures = << >>,
                          !.fenced = FALSE]
  /\ ExecOnly

\* ParallelFor::execute() for the policy [begin, begin + n):
\* bulk_twoway_execute of n = end - begin invocations on m_executor, its
\* future appended to fence_futures.  todo holds the invocations (0 .. n-1)
\* not yet made, ran the indexes the functor was invoked with.
parallel_for(begin, n) ==
  /\ exec.host = "idle" /\ exec.instance # "null"
  /\ Len(exec.tasks) < MaxDispatch
  /\ exec' = [exec EXCEPT !.tasks = Append(@, [n |-> n, left |-> n, gen |-> exec.inits,
                                               begin |-> begin, todo |-> 0 .. n - 1,
                                               ran |-> {}]),
                          !.fence_futures = Append(@, Len(exec.tasks) + 1),
                          !.fenced = FALSE]
  /\ ExecOnly

\* A thread of the context makes one invocation of the functor, which
\* writes A(i) = i * 2 for the index i it is given.
functor_run(k) ==
  /\ k \in DOMAIN exec.tasks /\ exec.tasks[k].left > 0
  /\ \E n \in exec.tasks[k].todo :
       LET i == functor_index(exec.tasks[k].begin, n)
       IN  exec' = [exec EXCEPT !.tasks[k].left = @ - 1,
                                !.tasks[k].todo = @ \ {n},
                                !.tasks[k].ran = @ \cup {i},
                                !.A[i] = i * 2]
  /\ ExecOnly

\* StdExecutors::fence(): the host enters StdExecutorsImpl::fence().
fence_call ==
  /\ exec.host = "idle" /\ exec.instance # "null"
  /\ exec' = [exec EXCEPT !.host = "fence", !.pos = 1]
  /\ ExecOnly

\* for(auto&& f : fence_futures) { f->get(); }: get() of the next future returns.
fence_get ==
  /\ exec.host = "fence" /\ exec.pos <= Len(exec.fence_futures)
  /\ future_ready(exec.tasks[exec.fence_futures[exec.pos]])
  /\ exec' = [exec EXCEPT !.pos = @ + 1]
  /\ ExecOnly

\* fence_futures.clear(); and the return of fence(), to the host program
\* or into TrivialDeepCopyImpl.
fence_return ==
  /\ exec.host = "fence" /\ exec.pos > Len(exec.fence_futures)
  /\ exec' = [exec EXCEPT !.host = IF exec.in_copy THEN "memcpy" ELSE "idle",
                          !.pos = 0,
                          !.fence_futures = << >>,
                          !.fenced = TRUE]
  /\ ExecOnly

\* TrivialDeepCopyImpl(dst, src, n): memcpy(h_A, A, n) at once.  torn tells
\* whether a functor dispatched on the instance still had invocations to make.
TrivialDeepCopyImpl ==
  /\ exec.host = "idle"
  /\ exec' = [exec EXCEPT !.h_A = exec.A, !.copy = "plain", !.torn = work_pending]
  /\ ExecOnly

TrivialDeepCopyImpl_nofence ==
  /\ exec.host = "idle" /\ exec.instance # "null"
  /\ exec' = [exec EXCEPT !.host = "memcpy", !.in_copy = TRUE]
  /\ ExecOnly

\* TrivialDeepCopyImpl(exec, dst, src, n): the host enters exec.fence().
TrivialDeepCopyImpl_fence ==
  /\ exec.host = "idle" /\ exec.instance # "null"
  /\ exec' = [exec EXCEPT !.host = "fence", !.pos = 1, !.in_copy = TRUE]
  /\ ExecOnly

\* ... and then memcpy(h_A, A, n).
TrivialDeepCopyImpl_memcpy ==
  /\ exec.host = "memcpy"
  /\ exec' = [exec EXCEPT !.host = "idle", !.in_copy = FALSE,
                          !.h_A = exec.A, !.copy = "instance", !.torn = work_pending]
  /\ ExecOnly

ExecNext ==
  \/ \E n \in ThreadCounts : initialize(n)
  \/ finalize
  \/ \E n \in 0 .. MaxRange : parallel_for(0, n)
  \/ \E k \in 1 .. MaxDispatch : functor_run(k)
  \/ fence_call
  \/ fence_get
  \/ fence_return

ExecSpec == ExecInit /\ [][ExecNext]_vars

\* A program that initializes the space once (assertions compiled in, no
\* hwloc), dispatches parallel_for over ranges [begin, begin + n), fences
\* and copies A to h_A with either overload of TrivialDeepCopyImpl.
RangeInit ==
  /\ ExecInit
  /\ ~exec.hwloc.available /\ exec.hwloc.count = 1 /\ ~exec.ndebug

RangeNext ==
  \/ \E n \in 1 .. MaxThreads : initialize(n)
  \/ \E begin \in 0 .. MaxBegin, n \in 0 .. MaxRange : parallel_for(begin, n)
  \/ \E k \in 1 .. MaxDispatch : functor_run(k)
  \/ fence_call
  \/ fence_get
  \/ fence_return
  \/ TrivialDeepCopyImpl
  \/ TrivialDeepCopyImpl_fence
  \/ TrivialDeepCopyImpl_memcpy

RangeSpec == RangeInit /\ [][RangeNext]_vars

\* --------------------------------------- AtomicDataElement: operator results
\* The element types the proxy is used with here: an explicit-path integer
\* and a generic-path floating-point type.
ProxyTypes == {Int32T, DoubleT}

\* The operator can be used on an element of type ty with operand v: the
\* operators whose body applies an integer-only built-in operator or catalog
\* entry (%, &, |, ^, ~, <<, >>) need an integral type, a divisor is not
\* zero and a shift count is less than the width.
ProxyDefined(opr, v, ty) ==
  /\ opr \in {"%", "||", "&", "|", "^", "~", "<<", ">>",
              "%=", "&=", "^=", "|=", "<<=", ">>="} => ty.integral
  /\ opr \in {"/", "%", "/=", "%="} => v # 0
  /\ opr \in {"<<", ">>", "<<=", ">>="} => v < Bits

\* The conversion of a bool to the value type.
as_value(b) == IF b THEN 1 ELSE 0

\* What the body of the operator returns, from the value r its one API call
\* returned and the operand v: operator= returns val, the mutating operators
\* return what the API call returned, the others apply the operator written
\* in their body to the loaded value.
proxy_result(opr, r, v) ==
  CASE opr = "="     -> v
    [] opr \in {"inc", "dec"} -> 0
    [] opr \in {"++x", "--x", "x++", "x--", "+=", "-=", "*=", "/=", "%=",
                "&=", "^=", "|=", "<<=", ">>=", "value"} -> r
    [] opr = "+"     -> (r + v) % Modulus
    [] opr = "-"     -> (r - v) % Modulus
    [] opr = "*"     -> (r * v) % Modulus
    [] opr = "/"     -> r \div v
    [] opr = "%"     -> Bitwise("xor", r, v, Bits)
    [] opr = "!"     -> as_value(r = 0)
    [] opr = "&&"    -> as_value(r # 0 /\ v # 0)
    [] opr = "||"    -> Bitwise("or", r, v, Bits)
    [] opr = "&"     -> Bitwise("and", r, v, Bits)
    [] opr = "|"     -> Bitwise("or", r, v, Bits)
    [] opr = "^"     -> Bitwise("xor", r, v, Bits)
    [] opr = "~"     -> (Modulus - 1) - r
    [] opr = "<<"    -> (r * (2 ^ v)) % Modulus
    [] opr = ">>"    -> r \div (2 ^ v)
    [] opr = "=="    -> as_value(r = v)
    [] opr = "!="    -> as_value(r # v)
    [] opr = ">="    -> as_value(r >= v)
    [] opr = "<="    -> as_value(r <= v)
    [] opr = "<"     -> as_value(r < v)
    [] opr = ">"     -> as_value(r > v)

ProxyInit ==
  /\ InitState
  /\ T \in ProxyTypes
  /\ mem \in Values
  /\ init0 = mem
  /\ pc = [t \in Threads |-> "idle"]
  /\ call = [t \in Threads |-> NoCall]
  /\ expected = [t \in Threads |-> 0]
  /\ desired = [t \in Threads |-> 0]
  /\ ret = [t \in Threads |-> 0]
  /\ pre = [t \in Threads |-> 0]
  /\ post = [t \in Threads |-> 0]
  /\ lastw = [t \in Threads |-> NoWrite]
  /\ order = << >>
  /\ fresh = [t \in Threads |-> FALSE]
  /\ calls = [t \in Threads |-> 0]
  /\ tick = FALSE

ProxyHist(t) ==
  /\ StepHist(t)
  /\ UNCHANGED <<init0, lastw, order, fresh, calls, tick, view, mp, exec, alloc>>

\* A use of an operator of the proxy bound to the target: its one API call.
\* The site records the operator and, in place of an operation name, the
\* operand written.
proxy_use(t) ==
  \E opr \in ProxyOperators, v \in Values :
    /\ opr \in ProxyUnit => v = 1
    /\ ProxyDefined(opr, v, T)
    /\ site' = CallSite("proxy", opr, v, "none", "none")
    /\ Perform(t, proxy_call(opr), v, 0)
    /\ ProxyHist(t)

\* One more evaluation of the while test, when the API call is a retry loop.
proxy_attempt(t) ==
  /\ loop_attempt(t)
  /\ UNCHANGED <<site, accepted, api, log>>
  /\ ProxyHist(t)

ProxyNext ==
  \E t \in {1} :
    \/ proxy_use(t)
    \/ proxy_attempt(t)

ProxySpec == ProxyInit /\ [][ProxyNext]_vars

\* The value the operator used at the call site has returned to its caller.
ProxyReturned(t) == proxy_result(site.fn, ret[t], site.op)

\* ------------------------------------------- tracked allocations
\* SharedAllocationRecord<StdExecutorsMemorySpace, void>.  A record is
\* [size, count, live, data]; the records ever created are kept in creation
\* order, a destroyed one with live = FALSE.  hist counts, per record, the
\* calls that took a reference for their caller and those that gave one back.
MaxRecords == 3
MaxSize == 2
Bytes == 0 .. 1

\* r->data(): the address behind the record's header.  nullptr is 0.
data(r) == r + MaxRecords

\* RecordBase::increment( r ): one more reference.
increment(rec) == [rec EXCEPT !.count = @ + 1]

\* RecordBase::decrement( r ): one reference less; the record is destroyed
\* with its allocation when the last one goes.
decrement(rec) == [rec EXCEPT !.count = @ - 1, !.live = rec.count - 1 > 0]

first_record(alloc_ptr) == IF alloc_ptr = 0 THEN 0 ELSE 1

\* get_record( alloc_ptr ): the record of the header in front of alloc_ptr;
\* 0 stands for the runtime exception thrown for a null pointer.
get_record(alloc_ptr) == IF alloc_ptr = 0 THEN 0 ELSE alloc_ptr - MaxRecords

\* The pointers the program holds to allocations that exist, and nullptr.
LivePointers == {data(r) : r \in {k \in DOMAIN alloc.records : alloc.records[k].live}}

TrackInit ==
  /\ InitState
  /\ T = Int32T
  /\ mem = 0
  /\ init0 = 0
  /\ pc = [t \in Threads |-> "idle"]
  /\ call = [t \in Threads |-> NoCall]
  /\ expected = [t \in Threads |-> 0]
  /\ desired = [t \in Threads |-> 0]
  /\ ret = [t \in Threads |-> 0]
  /\ pre = [t \in Threads |-> 0]
  /\ post = [t \in Threads |-> 0]
  /\ lastw = [t \in Threads |-> NoWrite]
  /\ order = << >>
  /\ fresh = [t \in Threads |-> FALSE]
  /\ calls = [t \in Threads |-> 0]
  /\ tick = FALSE

TrackOnly ==
  UNCHANGED <<T, mem, pc, call, expected, desired, ret,
              init0, pre, post, lastw, order, fresh, calls, tick,
              site, accepted, api, log, view, mp, exec>>

\* allocate_tracked( space, label, size ): nullptr for size 0; otherwise a
\* new record (its memory holds whatever it held), incremented, and its data().
allocate_tracked(arg_alloc_size) ==
  /\ ~alloc.thrown
  /\ IF arg_alloc_size = 0
     THEN alloc' = [alloc EXCEPT !.ret = 0,
                                 !.last = [fn |-> "allocate_tracked", ptr |-> 0, size |-> 0]]
     ELSE /\ Len(alloc.records) < MaxRecords
          /\ \E content \in [1 .. arg_alloc_size -> Bytes] :
               LET r == [size |-> arg_alloc_size, count |-> 0, live |-> TRUE, data |-> content]
               IN  alloc' = [alloc EXCEPT
                       !.records = Append(@, increment(r)),
                       !.hist = Append(@, [taken |-> 1, released |-> 0]),
                       !.ret = data(Len(alloc.records) + 1),
                       !.last = [fn |-> "allocate_tracked", ptr |-> 0,
                                 size |-> arg_alloc_size]]
  /\ TrackOnly

\* reallocate_tracked( alloc_ptr, size ): the record of alloc_ptr, a new
\* record of the size asked for, DeepCopy of min(old size, new size) bytes,
\* increment of the new record, decrement of the old one.
reallocate_tracked(arg_alloc_ptr, arg_alloc_size) ==
  /\ ~alloc.thrown
  /\ arg_alloc_ptr \in LivePointers \cup {0}
  /\ LET r_old == get_record(arg_alloc_ptr)
         call_ == [fn |-> "reallocate_tracked", ptr |-> arg_alloc_ptr,
                   size |-> arg_alloc_size]
     IN  IF r_old = 0
         THEN alloc' = [alloc EXCEPT !.thrown = TRUE, !.last = call_]
         ELSE /\ Len(alloc.records) < MaxRecords
              /\ \E content \in [1 .. arg_alloc_size -> Bytes] :
                   LET old   == alloc.records[r_old]
                       n     == IF old.size < arg_alloc_size THEN old.size
                                                             ELSE arg_alloc_size
                       r_new == [size |-> arg_alloc_size, count |-> 0, live |-> TRUE,
                                 data |-> [i \in 1 .. arg_alloc_size |->
                                             IF i <= n THEN old.data[i] ELSE content[i]]]
                       k     == Len(alloc.records) + 1
                   IN  /\ \A i \in 1 .. n : content[i] = 0
                       /\ alloc' = [alloc EXCEPT
                            !.records = [Append(@, increment(r_new))
                                           EXCEPT ![r_old] = decrement(@)],
                            !.hist = [Append(@, [taken |-> 1, released |-> 0])
                                        EXCEPT ![r_old].released = @ + 1],
                            !.ret = data(k),
                            !.last = call_]
  /\ TrackOnly

\* deallocate_tracked( alloc_ptr ): nothing for nullptr, else decrement of
\* the pointer's record.
deallocate_tracked(arg_alloc_ptr) ==
  /\ ~alloc.thrown
  /\ arg_alloc_ptr \in LivePointers \cup {0}
  /\ IF arg_alloc_ptr # 0
     THEN LET r == get_record(arg_alloc_ptr)
          IN  alloc' = [alloc EXCEPT
                  !.records[r] = decrement(@),
                  !.hist[r].released = @ + 1,
                  !.last = [fn |-> "deallocate_tracked", ptr |-> arg_alloc_ptr, size |-> 0]]
     ELSE alloc' = [alloc EXCEPT
                  !.last = [fn |-> "deallocate_tracked", ptr |-> 0, size |-> 0]]
  /\ TrackOnly

TrackNext ==
  \/ \E size \in 0 .. MaxSize : allocate_tracked(size)
  \/ \E ptr \in 0 .. data(MaxRecords), size \in 0 .. MaxSize : reallocate_tracked(ptr, size)
  \/ \E ptr \in 0 .. data(MaxRecords) : deallocate_tracked(ptr)

TrackSpec == TrackInit /\ [][TrackNext]_vars

\* ================================================================ claims

\* ---------------------------------------------------------------- C1
RECURSIVE ReturnedUpTo(_)
ReturnedUpTo(n) ==
  IF n = 0 THEN 0
  ELSE ReturnedUpTo(n - 1) + calls[n] - (IF pc[n] = "cas" THEN 1 ELSE 0)

CounterDone == \A t \in Threads : calls[t] = MaxCalls /\ pc[t] = "ret"

\* C1: no lost update.  N threads each call atomic_fetch_add(p, 1) M times on
\* a generic-path counter: the counter always equals the initial value plus
\* the number of calls that have returned, it equals initial + N*M once all
\* have returned, some step is possible until then (no deadlock), and under
\* fair scheduling all calls do return.
C1_NoLostUpdate ==
  /\ [](mem = (init0 + ReturnedUpTo(NThreads)) % Modulus)
  /\ [](CounterDone => mem = (init0 + NThreads * MaxCalls) % Modulus)
  /\ [](CounterDone \/ ENABLED CounterNext)
  /\ <>CounterDone

C1_Witness ==
  /\ CounterDone
  /\ generic_atomic_op(T)
  /\ mem = (init0 + NThreads * MaxCalls) % Modulus

\* ---------------------------------------------------------------- C2
\* The value the target holds after call c, which returned r, runs alone on a
\* target holding cur; NoValue when c run alone on cur cannot return r.
SeqEffect(c, r, cur) ==
  CASE c.fn = "atomic_load" -> IF r = cur THEN cur ELSE NoValue
    [] c.fn = "atomic_store" -> c.val
    [] c.fn = "atomic_exchange" -> c.val
    [] c.fn = "atomic_compare_exchange" ->
         IF cur = c.exp THEN (IF r = TRUE THEN c.val ELSE NoValue)
                        ELSE (IF r = FALSE THEN cur ELSE NoValue)
    [] c.fn = "atomic_compare_exchange_weak" ->
         IF r = TRUE THEN (IF cur = c.exp THEN c.val ELSE NoValue) ELSE cur
    [] c.fn = "fetch_op" -> IF r = cur THEN apply(c.op, cur, c.val) ELSE NoValue
    [] c.fn = "op_fetch" -> apply(c.op, cur, c.val)

RECURSIVE Replay(_, _)
Replay(i, cur) ==
  IF cur = NoValue \/ i > Len(order) THEN cur
  ELSE Replay(i + 1, SeqEffect(call[order[i]], ret[order[i]], cur))

\* C2: indivisibility.  The calls that have returned, run one at a time in
\* the order of their final builtin steps from the initial value, yield the
\* target's current value; in that run every fetch-op returns the value the
\* target held just before its update, every load returns the value the
\* target held at its place, and a compare-exchange writes exactly when it
\* reports success.
C2_Linearizable == Replay(1, init0) = mem

C2_Witness ==
  /\ Len(order) = NThreads
  /\ \E t \in Threads :
       /\ call[t].fn = "fetch_op" /\ call[t].impl = "atomic_fetch_op"
       /\ ret[t] # init0
       /\ mem # ret[t]

\* ---------------------------------------------------------------- C3
StrongReturned(t) == pc[t] = "ret" /\ call[t].fn = "atomic_compare_exchange"

\* C3: strong compare-exchange success.  When *p equals *expected at the
\* attempt, atomic_compare_exchange returns true, *p is desired and
\* expected is unchanged.
C3_StrongSuccess ==
  \A t \in Threads :
    StrongReturned(t) /\ pre[t] = call[t].exp =>
      /\ ret[t] = TRUE
      /\ mem = call[t].val
      /\ expected[t] = call[t].exp

C3_Witness ==
  \E t \in Threads :
    /\ StrongReturned(t) /\ pre[t] = call[t].exp /\ ret[t] = TRUE
    /\ generic_atomic_op(T)
    /\ call[t].val # call[t].exp

\* ---------------------------------------------------------------- C4
\* C4: strong compare-exchange failure.  When *p differs from *expected at
\* the attempt, atomic_compare_exchange returns false, *p is unchanged and
\* expected holds the value *p had.
C4_StrongFailure ==
  \A t \in Threads :
    StrongReturned(t) /\ pre[t] # call[t].exp =>
      /\ ret[t] = FALSE
      /\ mem = pre[t]
      /\ expected[t] = pre[t]

C4_Witness ==
  \E t \in Threads :
    /\ StrongReturned(t) /\ pre[t] # call[t].exp /\ ret[t] = FALSE
    /\ explicit_atomic_op(T)
    /\ call[t].val # pre[t]

\* ---------------------------------------------------------------- C5
\* C5: store/load round trip.  atomic_load called right after atomic_store(p, v)
\* by the only caller returns v.
C5_StoreLoadRoundTrip ==
  \A t \in Threads :
    pc[t] = "ret" /\ call[t].fn = "atomic_load" /\ lastw[t].fn = "atomic_store" =>
      ret[t] = lastw[t].val

C5_Witness ==
  \E t \in Threads :
    /\ pc[t] = "ret" /\ call[t].fn = "atomic_load" /\ lastw[t].fn = "atomic_store"
    /\ ret[t] = lastw[t].val
    /\ ret[t] # 0
    /\ generic_atomic_op(T)

\* ---------------------------------------------------------------- C6
\* C6: exchange.  atomic_exchange(p, v) returns the value *p held just before
\* the call, and atomic_load called right after it by the only caller returns v.
C6_Exchange ==
  \A t \in Threads :
    /\ pc[t] = "ret" /\ call[t].fn = "atomic_exchange" => ret[t] = pre[t]
    /\ pc[t] = "ret" /\ call[t].fn = "atomic_load" /\ lastw[t].fn = "atomic_exchange" =>
         ret[t] = lastw[t].val

\* ---------------------------------------------------------------- C7
CatalogReturned(t) == pc[t] = "ret" /\ call[t].fn \in Forms

\* C7: catalog consistency.  From target state s a single caller's
\* atomic_<op>_fetch(p, v) returns Op(s, v), atomic_fetch_<op>(p, v) returns
\* s, and both leave *p = Op(s, v).
C7_CatalogConsistency ==
  \A t \in Threads :
    CatalogReturned(t) =>
      /\ mem = apply(call[t].op, pre[t], call[t].val)
      /\ call[t].fn = "op_fetch" => ret[t] = apply(call[t].op, pre[t], call[t].val)
      /\ call[t].fn = "fetch_op" => ret[t] = pre[t]

\* ---------------------------------------------------------------- C8
\* C8: under concurrent writers every op-then-fetch call returns the value
\* its own successful compare-exchange installed, and every fetch-then-op
\* call returns the value its successful compare-exchange replaced.
C8_ReturnsOwnUpdate ==
  \A t \in Threads :
    CatalogReturned(t) /\ Looping(t) =>
      /\ call[t].fn = "op_fetch" => ret[t] = post[t]
      /\ call[t].fn = "fetch_op" => ret[t] = pre[t]

\* ---------------------------------------------------------------- C9

\* C9: lock-freedom.  A looping thread's compare-exchange can fail for a
\* non-spurious reason (the target differs from its expected) only after
\* another thread changed the target since the looping thread last read it;
\* and whenever some thread is inside the retry loop, some call returns.
C9_LockFree ==
  /\ [](\A t \in Threads : InLoop(t) /\ mem # expected[t] => ~fresh[t])
  /\ \A b \in BOOLEAN : ((\E t \in Threads : InLoop(t)) /\ tick = b) ~> (tick # b)

C9_Witness ==
  \E t, u \in Threads :
    /\ InLoop(t) /\ mem # expected[t] /\ ~fresh[t]
    /\ InLoop(u) /\ fresh[u]

\* ---------------------------------------------------------------- C10
\* C10 as stated: every fetch-op / op-fetch call that entered the retry loop
\* eventually returns, also when other threads keep writing the target.
C10_AlwaysReturns ==
  \A t \in Threads : InLoop(t) ~> (pc[t] = "ret")

\* C10 as amended: a call served by a single builtin returns in its one step
\* (only retry-loop calls are ever pending), and a call inside the retry loop
\* eventually returns unless another thread changes the target after the
\* call's latest read of it.
C10_ReturnsUnlessOverwritten ==
  /\ [](\A t \in Threads : InLoop(t) => Looping(t))
  /\ \A t \in Threads : InLoop(t) ~> (pc[t] = "ret" \/ ~fresh[t])

C10_Witness ==
  \E t, u \in Threads :
    /\ pc[t] = "ret" /\ Looping(t)
    /\ InLoop(u) /\ ~fresh[u] /\ mem # expected[u]

\* --------------------------------------------------------------- C11
\* C11: the retry loop is not wait-free.  Under the schedule in which every
\* read of the watched thread is followed by another thread's successful
\* write, every step is a step of the program, the schedule is fair for the
\* looping threads, the watched call never returns, and its
\* compare-exchange fails again and again: nothing in the loop bounds the
\* retries.
C11_NotWaitFree ==
  /\ [][LiveNext]_vars
  /\ LiveFair
  /\ [](pc[Victim] # "ret")
  /\ []<><<LiveAttempt(Victim) /\ pc'[Victim] = "cas">>_vars
  /\ []<><<StarveWrite>>_vars

C11_Witness ==
  /\ InLoop(Victim) /\ fresh[Victim] /\ expected[Victim] = mem
  /\ \E u \in Threads \ {Victim} :
       pc[u] = "ret" /\ call[u].fn \in {"atomic_store", "fetch_op", "op_fetch"}

\* --------------------------------------------------------------- C12
\* C12: retry-loop termination.  While the target is unchanged since the read
\* that produced expected (the initial load or the refresh by the last failed
\* attempt), the comparison of the next attempt succeeds: an attempt made
\* then ends the call and installs desired (a spurious failure of the weak
\* compare-exchange leaves every variable as it was and is not a step); and
\* a call whose target no other thread writes does return.
C12_RetryLoopTermination ==
  /\ [](\A t \in Threads : InLoop(t) /\ fresh[t] => expected[t] = mem)
  /\ [][\A t \in Threads :
          LiveAttempt(t) /\ fresh[t] => pc'[t] = "ret" /\ mem' = desired[t]]_vars
  /\ \A t \in Threads : (InLoop(t) /\ fresh[t]) ~> (pc[t] = "ret" \/ expected[t] # mem)

C12_Witness ==
  \E t, u \in Threads :
    /\ t # u
    /\ pc[t] = "ret" /\ Looping(t) /\ mem = desired[t]
    /\ InLoop(u) /\ fresh[u] /\ Looping(u) /\ expected[u] = mem


\* --------------------------------------------------------------- C13
\* C13: ordering validity table.  For an element type the operations exist
\* for (non-volatile T), a call site of atomic_load compiles exactly when its
\* Order is Relaxed, Acquire or SeqCst, one of atomic_store exactly when it is
\* Relaxed, Release or SeqCst, one of atomic_exchange, of any fetch-op /
\* op-fetch and of atomic_thread_fence exactly when it is one of the five
\* markers; with an Order (or failure Order) that is no marker, no call site
\* of any operation compiles.
C13_OrderingValidity ==
  site.entry = "api" =>
    /\ site.fn = "atomic_load" /\ ~T.volatile =>
         (accepted <=> site.order \in {MemoryOrderRelaxed, MemoryOrderAcquire, MemoryOrderSeqCst})
    /\ site.fn = "atomic_store" /\ ~T.volatile =>
         (accepted <=> site.order \in {MemoryOrderRelaxed, MemoryOrderRelease, MemoryOrderSeqCst})
    /\ site.fn = "atomic_exchange" /\ ~T.volatile =>
         (accepted <=> site.order \in MemoryOrders)
    /\ site.fn \in Forms /\ ~T.volatile =>
         (accepted <=> site.order \in MemoryOrders)
    /\ site.fn = "atomic_thread_fence" =>
         (accepted <=> site.order \in MemoryOrders)
    /\ site.order \notin MemoryOrders => ~accepted
    /\ site.fn \in {"atomic_compare_exchange", "atomic_compare_exchange_weak"}
         /\ site.failure \notin MemoryOrders => ~accepted
    /\ accepted => Len(log) >= 1 /\ log[1].order \in MemoryOrders
    /\ accepted /\ ~Looping(1) => log[1].order = site.order

C13_Witness ==
  /\ site.entry = "api" /\ site.fn = "atomic_exchange" /\ site.order = MemoryOrderRelease
  /\ accepted /\ pc[1] = "ret"
  /\ log = <<Access("__atomic_exchange_n", "none", FALSE, MemoryOrderRelease, "none")>>

\* --------------------------------------------------------------- C14
CompareExchangeSite ==
  site.fn \in {"atomic_compare_exchange", "atomic_compare_exchange_weak"}

\* C14 as stated: an accepted (success, failure) pair has failure Relaxed or
\* Acquire, failure not stronger than success, failure not Release or AcqRel.
C14_FailureRelaxedOrAcquire ==
  CompareExchangeSite /\ accepted =>
    /\ site.failure \in {MemoryOrderRelaxed, MemoryOrderAcquire}
    /\ ~Stronger(site.failure, site.order)
    /\ site.failure \notin {MemoryOrderRelease, MemoryOrderAcqRel}

\* C14 (amended): a (success, failure) pair is accepted by
\* atomic_compare_exchange and atomic_compare_exchange_weak only if failure is
\* Relaxed, Acquire or SeqCst (SeqCst only together with success SeqCst),
\* failure is not stronger than success, and failure is never Release or
\* AcqRel; the accepted orders are the ones handed to the builtin.
C14_FailureOrderRule ==
  CompareExchangeSite /\ accepted =>
    /\ site.failure \in {MemoryOrderRelaxed, MemoryOrderAcquire, MemoryOrderSeqCst}
    /\ site.failure = MemoryOrderSeqCst => site.order = MemoryOrderSeqCst
    /\ ~Stronger(site.failure, site.order)
    /\ site.failure \notin {MemoryOrderRelease, MemoryOrderAcqRel}
    /\ log = <<Access(Builtin("__atomic_compare_exchange_n",
                              "__atomic_compare_exchange", T), "none",
                      site.fn = "atomic_compare_exchange_weak",
                      site.order, site.failure)>>

C14_Witness ==
  /\ site.fn = "atomic_compare_exchange"
  /\ site.order = MemoryOrderSeqCst /\ site.failure = MemoryOrderSeqCst
  /\ accepted /\ pc[1] = "ret" /\ ret[1] = TRUE /\ mem = call[1].val

\* --------------------------------------------------------------- C15
\* The rule in the comment above atomic_compare_exchange: the failure order
\* is neither release nor acq_rel and is not stronger than the success order.
DocumentedRule(s, f) ==
  /\ s \in MemoryOrders /\ f \in MemoryOrders
  /\ f \notin {MemoryOrderRelease, MemoryOrderAcqRel}
  /\ ~Stronger(f, s)

\* C15: the compare-exchange table is exact.  For a type the operation exists
\* for, a compare-exchange call site compiles if and only if its (success,
\* failure) orders are two of the five markers that satisfy the documented
\* rule; and the table itself equals the rule on all pairs.
C15_TableExact ==
  /\ CompareExchangeSite /\ ~T.volatile =>
       (accepted <=> DocumentedRule(site.order, site.failure))
  /\ \A s \in OrderArgs, f \in OrderArgs :
       valid_atomic_compare_exchange_order(s, f) <=> DocumentedRule(s, f)

C15_Witness ==
  /\ CompareExchangeSite /\ ~T.volatile
  /\ site.order = MemoryOrderRelease /\ site.failure = MemoryOrderAcquire
  /\ accepted /\ pc[1] = "ret"

\* --------------------------------------------------------------- C16
\* T is a pointer or an integral type no wider than the maximum atomic integer.
SmallIntegralOrPointer(ty) ==
  ty.pointer \/ (ty.integral /\ ty.size <= max_atomic_integer_size)

\* C16: dispatch rule.  A call site of load / store / exchange /
\* compare-exchange with valid orders selects, for a non-volatile T, exactly
\* one overload: the explicit one (the _n builtins) if and only if T is a
\* pointer or an integral type of at most max_atomic_integer_size bytes, the
\* generic one (the by-address builtins) otherwise; for a volatile T no
\* overload is viable and the call site does not compile.
C16_DispatchRule ==
  /\ \A ty \in AllTypes :
       /\ Cardinality(Overloads(ty)) = IF ty.volatile THEN 0 ELSE 1
       /\ "explicit" \in Overloads(ty) <=> ~ty.volatile /\ SmallIntegralOrPointer(ty)
       /\ "generic" \in Overloads(ty) <=> ~ty.volatile /\ ~SmallIntegralOrPointer(ty)
  /\ site.entry = "api" /\ site.fn \in Primitives
       /\ order_assert(site.fn, site.order, site.failure) =>
       /\ accepted <=> ~T.volatile
       /\ accepted /\ SmallIntegralOrPointer(T) =>
            log[1].builtin \in {"__atomic_load_n", "__atomic_store_n",
                                "__atomic_exchange_n", "__atomic_compare_exchange_n"}
       /\ accepted /\ ~SmallIntegralOrPointer(T) =>
            log[1].builtin \in {"__atomic_load", "__atomic_store",
                                "__atomic_compare_exchange"}

C16_Witness ==
  /\ site.entry = "api" /\ site.fn = "atomic_load" /\ accepted /\ pc[1] = "ret"
  /\ T = Int128T /\ log[1].builtin = "__atomic_load" /\ ret[1] = mem

\* --------------------------------------------------------------- C17
\* The call site names a fetch-op / op-fetch entry point of add, sub, and, or,
\* xor or nand for an explicit-path type, and compiled.
ArithmeticSite ==
  /\ site.entry = "api" /\ site.fn \in Forms
  /\ site.op \in {"add", "sub", "and", "or", "xor", "nand"}
  /\ explicit_atomic_op(T)
  /\ accepted

\* The call was one hardware fetch-and-operate for the site's operator and order.
ForwardedToBuiltin ==
  /\ pc[1] = "ret"
  /\ log = <<Access(IF site.fn = "fetch_op" THEN "__atomic_fetch_op" ELSE "__atomic_op_fetch",
                    site.op, FALSE, site.order, "none")>>

\* C17 as stated: on every explicit-path integral or pointer type both forms
\* of add, sub, and, or, xor, nand forward to the builtin, never to the loop.
C17_ExplicitPathForwards ==
  ArithmeticSite => ForwardedToBuiltin /\ ~Looping(1)

\* C17 (amended): on every explicit-path integral type other than bool and on
\* every pointer type both forms of add, sub, and, or, xor, nand forward to
\* the hardware fetch-and-operate builtin for that operator and ordering,
\* never to the CAS retry loop; on bool they are served by the retry loop.
C17_ArithmeticPathForwards ==
  /\ ArithmeticSite /\ ~T.bool => ForwardedToBuiltin /\ ~Looping(1)
  /\ ArithmeticSite /\ T.bool =>
       /\ Looping(1)
       /\ log[1] = Access("__atomic_load_n", "none", FALSE, MemoryOrderRelaxed, "none")

C17_Witness ==
  /\ ArithmeticSite /\ T = PointerT /\ site.fn = "op_fetch" /\ site.op = "nand"
  /\ site.order = MemoryOrderSeqCst /\ ForwardedToBuiltin
  /\ ret[1] = mem

\* --------------------------------------------------------------- C18
\* The call site names a fetch-op / op-fetch entry point on a generic-path
\* type, or one of mul, div, mod, min, max, lshift, rshift on any type the
\* entry point exists for, and compiled.
RetryLoopSite ==
  /\ site.entry = "api" /\ site.fn \in Forms /\ accepted
  /\ generic_atomic_op(T)
       \/ site.op \in {"mul", "div", "mod", "min", "max", "lshift", "rshift"}

\* C18: such a call is the optimistic retry loop: its first builtin is one
\* Relaxed load, every later one a weak compare-exchange with orders (order,
\* Relaxed); while the call is in the loop desired is the operation applied
\* to the current expected (recomputed after each failure, also after another
\* thread's write), and the call returns only by a compare-exchange that
\* succeeded and installed desired.
C18_RetryLoop ==
  RetryLoopSite =>
    /\ Looping(1)
    /\ pc[1] \in {"cas", "ret"}
    /\ Len(log) >= 1
    /\ log[1] = Access(Builtin("__atomic_load_n", "__atomic_load", T),
                       "none", FALSE, MemoryOrderRelaxed, "none")
    /\ \A i \in 2 .. Len(log) :
         log[i] = Access(Builtin("__atomic_compare_exchange_n", "__atomic_compare_exchange", T),
                         "none", TRUE, site.order, MemoryOrderRelaxed)
    /\ desired[1] = apply(site.op, expected[1], call[1].val)
    /\ pc[1] = "cas" /\ mem # expected[1] =>
         \E u \in Threads \ {1} : pc[u] = "ret" /\ call[u].fn = "atomic_store"
    /\ pc[1] = "ret" => Len(log) >= 2 /\ mem = desired[1]

C18_Witness ==
  /\ RetryLoopSite /\ T = Int32T /\ site.op = "max" /\ site.order = MemoryOrderRelease
  /\ pc[1] = "ret" /\ Len(log) = MaxLog + 1
  /\ \E u \in Threads \ {1} : pc[u] = "ret" /\ expected[1] = call[u].val
  /\ desired[1] # expected[1]

\* --------------------------------------------------------------- C19
\* C19: every operator of the proxy (assignment, inc / dec, prefix and postfix
\* ++ / --, the compound assignments, the non-mutating operators and the
\* conversion) makes exactly one call of the ordering-aware API, which is a
\* load, a store, a fetch-op or an op-fetch with order Relaxed, and every
\* builtin that call invokes on the target carries Relaxed orders only.
C19_ProxyRelaxed ==
  /\ \A opr \in ProxyOperators :
       /\ proxy_call(opr).fn \in {"atomic_load", "atomic_store", "fetch_op", "op_fetch"}
       /\ proxy_call(opr).order = MemoryOrderRelaxed
  /\ site.entry = "proxy" /\ accepted =>
       /\ Len(api) = 1
       /\ api[1].fn \in {"atomic_load", "atomic_store", "fetch_op", "op_fetch"}
       /\ api[1].order = MemoryOrderRelaxed
       /\ \A i \in 1 .. Len(log) :
            /\ log[i].order = MemoryOrderRelaxed
            /\ log[i].failure \in {"none", MemoryOrderRelaxed}
       /\ ~Looping(1) => Len(log) = 1 /\ pc[1] = "ret"

C19_Witness ==
  /\ site.entry = "proxy" /\ site.fn = ">>=" /\ accepted
  /\ pc[1] = "ret" /\ Len(log) >= 2
  /\ api = <<ApiCall("op_fetch", "rshift", MemoryOrderRelaxed, "none")>>

\* --------------------------------------------------------------- C20
\* C20: a legacy call with a volatile target pointer and no ordering argument
\* behaves as the ordering-aware primitive on the same address: it makes that
\* one call, with order AcqRel for the fetch-op / op-fetch operations and
\* with order Relaxed for the plain store atomic_assign.
C20_LegacyOrderings ==
  site.entry = "legacy" =>
    /\ accepted
    /\ Len(api) = 1
    /\ site.fn = "atomic_assign" =>
         api[1] = ApiCall("atomic_store", "none", MemoryOrderRelaxed, "none")
    /\ site.fn \in {"atomic_fetch_op", "atomic_op_fetch"} =>
         api[1].op = site.op /\ api[1].order = MemoryOrderAcqRel
\* --------------------------------------------------------------- C28
\* A returned call of atomic_compare_exchange_weak.
WeakReturned(t) ==
  pc[t] = "ret" /\ call[t].fn = "atomic_compare_exchange_weak"

\* C28: atomic_compare_exchange_weak returns true only if the target
\* equalled *expected, and the target then holds desired; when it returns
\* false although the target equalled *expected (a spurious failure) the
\* target is unchanged and *expected equals the target's value, which is the
\* value the caller passed, so that the same call can be repeated.
C28_WeakContract ==
  \A t \in Threads :
    WeakReturned(t) =>
      /\ ret[t] = TRUE => pre[t] = call[t].exp /\ post[t] = call[t].val
      /\ ret[t] = FALSE =>
           /\ post[t] = pre[t]
           /\ expected[t] = post[t]
           /\ pre[t] = call[t].exp => expected[t] = call[t].exp

\* A spurious failure: false is returned while the target equals *expected
\* and differs from desired.
C28_Witness ==
  \E t \in Threads :
    /\ WeakReturned(t) /\ ret[t] = FALSE
    /\ pre[t] = call[t].exp /\ call[t].val # call[t].exp
    /\ post[t] = pre[t] /\ expected[t] = post[t]

\* --------------------------------------------------------------- C29
\* C29: one call of the retry loop writes the target exactly once.  While
\* the call is in the loop its own last step (the initial load, or a failed
\* compare-exchange, genuine or spurious) left the target as it was; the
\* step at which it returns replaced the value v the target held by
\* Op(v, operand), the operation applied once.
C29_ExactlyOnce ==
  \A t \in Threads :
    /\ InLoop(t) => post[t] = pre[t]
    /\ pc[t] = "ret" /\ Looping(t) =>
         post[t] = apply(call[t].op, pre[t], call[t].val)

\* A call that returned after a failed attempt, made while another call
\* had changed the target, and whose operation changes the value.
C29_Witness ==
  \E t \in Threads :
    /\ pc[t] = "ret" /\ Looping(t)
    /\ post[t] # pre[t]
    /\ post[t] = apply(call[t].op, pre[t], call[t].val)
    /\ pre[t] # init0
    /\ Len(order) = NThreads /\ order[NThreads] = t

\* --------------------------------------------------------------- C30
\* C30: at every compare-exchange attempt of the retry loop desired is
\* Op(expected, operand), and expected is the value the target held at the
\* caller's last step (the initial load or the refresh by the failed
\* compare-exchange); the attempt that succeeds installs desired computed
\* from the value the target held at that very step.
C30_LoopInvariant ==
  \A t \in Threads :
    /\ InLoop(t) =>
         /\ desired[t] = apply(call[t].op, expected[t], call[t].val)
         /\ expected[t] = pre[t]
    /\ pc[t] = "ret" /\ Looping(t) =>
         /\ desired[t] = apply(call[t].op, expected[t], call[t].val)
         /\ expected[t] = pre[t]
         /\ post[t] = desired[t]

\* An attempt about to be made on a target that another call has changed:
\* expected is the changed value, and desired differs from it.
C30_Witness ==
  \E t \in Threads :
    /\ InLoop(t)
    /\ expected[t] # init0
    /\ expected[t] = mem
    /\ desired[t] = apply(call[t].op, expected[t], call[t].val)
    /\ desired[t] # expected[t]

\* --------------------------------------------------------------- C23
\* A returned addition or subtraction on an integral target: a catalog call
\* or one of the entries that return nothing.
AddSubReturned(t) ==
  /\ pc[t] = "ret"
  /\ T.integral /\ ~T.bool
  /\ call[t].fn \in Forms \cup VoidEntries
  /\ call[t].op \in AddSubOps

\* The sum or difference as an unbounded integer.
Unbounded(t) ==
  IF call[t].op = "add" THEN pre[t] + call[t].val ELSE pre[t] - call[t].val

Overflowed(fn) ==
  /\ AddSubReturned(1) /\ call[1].fn = fn
  /\ Unbounded(1) \notin Values
  /\ post[1] = Unbounded(1) % Modulus

Wrote(t) == pc[t] = "ret" /\ call[t].fn # "atomic_load"

\* The value a target holding m holds after the call c alone.
Effect(c, m) ==
  IF c.fn = "atomic_store" THEN c.val ELSE apply(c.op, m, c.val)

\* The element with index j of the view.
At(j) == view.ptr + j

\* C21: calls on different elements do not interfere.  In every state the
\* element j differs from its initial value only if a thread holding the
\* proxy of index j has returned from a writing call, and when one thread
\* alone holds that proxy the element holds the effect of that thread's
\* call on the initial value, whatever the calls on the other elements and
\* however they interleave.  No step changes an element other than the one
\* whose proxy the stepping thread took from the handle.
C21_NonInterference ==
  /\ [](\A j \in Indexes :
          /\ view.heap[At(j)] # view.init[At(j)] =>
               \E t \in Threads : view.idx[t] = j /\ Wrote(t)
          /\ \A t \in Threads :
               /\ view.idx[t] = j /\ Wrote(t)
               /\ \A u \in Threads \ {t} : view.idx[u] # j
               => view.heap[At(j)] = Effect(call[t], view.init[At(j)]))
  /\ [][\A a \in DOMAIN view.heap :
          view'.heap[a] # view.heap[a] =>
            \E t \in Threads :
              /\ view.idx[t] # NoIndex /\ a = At(view.idx[t])
              /\ pc[t] # "ret" /\ pc'[t] = "ret"]_vars

\* Two threads returned from writing calls on different elements, one of
\* them through the retry loop; both elements changed, each by its own call.
C21_Witness ==
  \E t \in Threads, u \in Threads :
    /\ view.idx[t] \in Indexes /\ view.idx[u] \in Indexes
    /\ view.idx[t] # view.idx[u]
    /\ Wrote(t) /\ Wrote(u) /\ Looping(t)
    /\ view.heap[view.elem[t]] # view.init[view.elem[t]]
    /\ view.heap[view.elem[u]] # view.init[view.elem[u]]
    /\ view.elem[t] # view.elem[u]
    /\ view.heap[view.elem[t]] = Effect(call[t], view.init[view.elem[t]])
    /\ view.heap[view.elem[u]] = Effect(call[u], view.init[view.elem[u]])

\* --------------------------------------------------------------- C22
\* Consumer u has read the datum after a load that returned the value the
\* publisher's store wrote.
ReadAfter(u, so, lo) ==
  /\ mp.stage[u] = "read"
  /\ mp.from[u] = "store" /\ ret[u] = call[Publisher].val
  /\ mp.ord[Publisher] = so /\ mp.ord[u] = lo

\* C22: message passing.  When the publisher has written the datum and then
\* called atomic_store with Release, and a consumer's atomic_load with
\* Acquire returned the value of that store, the consumer's later read of
\* the datum returns the publisher's last write before the store, never an
\* older value.  The same holds for SeqCst on either side.
C22_MessagePassing ==
  \A u \in Consumers :
    \A so \in {MemoryOrderRelease, MemoryOrderSeqCst},
       lo \in {MemoryOrderAcquire, MemoryOrderSeqCst} :
      ReadAfter(u, so, lo) => mp.got[u] = mp.data

\* The datum was written more than once, published with Release and read
\* after an Acquire load of the stored value.
C22_Witness ==
  \E u \in Consumers :
    /\ ReadAfter(u, MemoryOrderRelease, MemoryOrderAcquire)
    /\ mp.data = MaxWrites /\ mp.got[u] = MaxWrites
    /\ post[Publisher] # init0

\* --------------------------------------------------------------- C24
\* The functors dispatched on the present default instance.
Dispatched == {k \in DOMAIN exec.tasks : exec.tasks[k].gen = exec.inits}

\* C24: from the return of fence() until the next dispatch every functor
\* dispatched on the instance has completed all its invocations, the list
\* of futures is empty and in_parallel() is false; fence() returns only
\* after get() has returned for every future of the list.
C24_Fence ==
  /\ [](exec.fenced =>
          /\ \A k \in Dispatched : exec.tasks[k].left = 0
          /\ exec.fence_futures = << >>
          /\ ~in_parallel)
  /\ [][exec.host = "fence" /\ exec'.host = "idle" =>
          /\ exec.pos = Len(exec.fence_futures) + 1
          /\ \A i \in DOMAIN exec.fence_futures :
               exec.tasks[exec.fence_futures[i]].left = 0
          /\ exec'.fenced]_vars

\* fence() returned after waiting for two parallel_for dispatches with
\* invocations to run.
C24_Witness ==
  /\ exec.fenced /\ exec.host = "idle"
  /\ Cardinality(Dispatched) = MaxDispatch
  /\ \A k \in Dispatched : exec.tasks[k].n > 0 /\ exec.tasks[k].left = 0

\* --------------------------------------------------------------- C25
\* C25: in_parallel() is true exactly when a functor dispatched on the
\* instance has not completed.
C25_InParallelExact ==
  is_initialized =>
    (in_parallel <=> \E k \in Dispatched : exec.tasks[k].left > 0)

\* --------------------------------------------------------------- C26
\* C26: is_initialized() is true exactly when the last of the calls of
\* initialize() and finalize() was initialize(), and the instance then has
\* the execution context its executor comes from.  With assertions compiled
\* in, initialize() completes only when the space is not initialized;
\* otherwise the assert stops the program.
C26_Lifecycle ==
  /\ [](/\ is_initialized <=> exec.last = "initialize"
        /\ is_initialized => exec.m_context # 0 /\ exec.m_context = exec.context
        /\ exec.host = "aborted" => is_initialized /\ ~exec.ndebug)
  /\ [][/\ exec'.inits # exec.inits =>
             /\ ~is_initialized \/ exec.ndebug
             /\ exec'.instance = "live" /\ exec'.last = "initialize"
        /\ exec'.host = "aborted" /\ exec.host # "aborted" =>
             exec.instance # "null" /\ exec'.inits = exec.inits]_vars

\* The space was initialized, finalized and initialized again, and the new
\* instance ran a parallel_for to completion and fenced.
C26_Witness ==
  /\ exec.inits = MaxInits /\ exec.last = "initialize" /\ is_initialized
  /\ exec.fenced
  /\ \E k \in Dispatched : exec.tasks[k].n > 0 /\ exec.tasks[k].left = 0
  /\ \E k \in DOMAIN exec.tasks : exec.tasks[k].gen < exec.inits

\* --------------------------------------------------------------- C27
\* C27: after initialize(thread_count) the default instance runs on a
\* context created with the thread count asked for (thread_count itself, or
\* the hwloc count or 8 when it is not positive), also when the call follows
\* a finalize(); after finalize() the default context is released.
C27_ContextThreads ==
  /\ is_initialized => exec.m_context = exec.asked
  /\ exec.last = "finalize" => exec.context = 0

\* --------------------------------------------------------------- C31
\* The operator opr of the proxy has returned to thread 1.
ProxyDone(oprs) ==
  site.entry = "proxy" /\ site.fn \in oprs /\ accepted /\ pc[1] = "ret"

\* C31: prefix ++ and -- return the value of the target after the update,
\* postfix ++ and -- the value before it, and each changes the target by
\* exactly one, for integers and for floating point.
C31_IncrementDecrement ==
  /\ ProxyDone({"++x", "x++"}) => post[1] = (pre[1] + 1) % Modulus
  /\ ProxyDone({"--x", "x--"}) => post[1] = (pre[1] - 1) % Modulus
  /\ ProxyDone({"++x", "--x"}) => ProxyReturned(1) = post[1]
  /\ ProxyDone({"x++", "x--"}) => ProxyReturned(1) = pre[1]

\* --------------------------------------------------------------- C32
\* The catalog operation a compound assignment names.
CompoundOp(opr) ==
  CASE opr = "+="  -> "add" [] opr = "-="  -> "sub" [] opr = "*="  -> "mul"
    [] opr = "/="  -> "div" [] opr = "%="  -> "mod" [] opr = "&="  -> "and"
    [] opr = "^="  -> "xor" [] opr = "|="  -> "or"
    [] opr = "<<=" -> "lshift" [] opr = ">>=" -> "rshift"

Compound == {"+=", "-=", "*=", "/=", "%=", "&=", "^=", "|=", "<<=", ">>="}

\* C32: each compound assignment replaces the target value x by x op val in
\* one step and returns the new value.
C32_CompoundAssignment ==
  ProxyDone(Compound) =>
    /\ post[1] = apply(CompoundOp(site.fn), pre[1], site.op)
    /\ ProxyReturned(1) = post[1]

\* --------------------------------------------------------------- C33
\* The built-in operator of the same name, on the loaded value x and operand v.
SameNamed(opr, x, v) ==
  CASE opr = "+"  -> (x + v) % Modulus
    [] opr = "-"  -> (x - v) % Modulus
    [] opr = "*"  -> (x * v) % Modulus
    [] opr = "/"  -> x \div v
    [] opr = "%"  -> x % v
    [] opr = "!"  -> as_value(x = 0)
    [] opr = "&&" -> as_value(x # 0 /\ v # 0)
    [] opr = "||" -> as_value(x # 0 \/ v # 0)
    [] opr = "&"  -> Bitwise("and", x, v, Bits)
    [] opr = "|"  -> Bitwise("or", x, v, Bits)
    [] opr = "^"  -> Bitwise("xor", x, v, Bits)
    [] opr = "~"  -> (Modulus - 1) - x
    [] opr = "<<" -> (x * (2 ^ v)) % Modulus
    [] opr = ">>" -> x \div (2 ^ v)
    [] opr = "==" -> as_value(x = v)
    [] opr = "!=" -> as_value(x # v)
    [] opr = ">=" -> as_value(x >= v)
    [] opr = "<=" -> as_value(x <= v)
    [] opr = "<"  -> as_value(x < v)
    [] opr = ">"  -> as_value(x > v)

\* C33: each non-mutating operator returns the same-named built-in operator
\* applied to the loaded value and the operand and leaves the target as it
\* was; operator= stores val and returns val; the conversion returns the
\* loaded value.
C33_NonMutating ==
  /\ ProxyDone(ProxyLoading \ {"value"}) =>
       /\ ProxyReturned(1) = SameNamed(site.fn, pre[1], site.op)
       /\ post[1] = pre[1]
  /\ ProxyDone({"="}) => post[1] = site.op /\ ProxyReturned(1) = site.op
  /\ ProxyDone({"value"}) => ProxyReturned(1) = pre[1] /\ post[1] = pre[1]

\* --------------------------------------------------------------- C34
\* The ordering-aware compare-exchange in the body of the legacy shim has
\* returned: compare is call.exp, val is call.val.
LegacyCompareExchanged ==
  pc[1] = "ret" /\ call[1].fn = "atomic_compare_exchange"

LegacyReturn ==
  legacy_compare_exchange_result(ret[1], call[1].val, expected[1])

\* C34: the legacy atomic_compare_exchange returns the value the target
\* held immediately before the operation, so that the value returned equals
\* compare exactly when the swap took place; a mismatch leaves the target
\* unchanged.
C34_LegacyReturnsPrior ==
  LegacyCompareExchanged =>
    /\ LegacyReturn = pre[1]
    /\ LegacyReturn = call[1].exp <=> ret[1]
    /\ ~ret[1] => post[1] = pre[1]

\* --------------------------------------------------------------- C35
\* C35: every legacy shim terminates: a call of a volatile-pointer overload
\* (atomic_and and atomic_or included) reaches an ordering-aware primitive,
\* a different function, and never resolves back to the shim itself.
C35_ShimsTerminate ==
  site.entry = "legacy" =>
    /\ \A t \in Threads : pc[t] # "recursing"
    /\ accepted => Len(api) = 1

\* --------------------------------------------------------------- C36
\* A call site of a fetch-op / op-fetch entry point that passes one of the
\* five orders.
OrderedCatalogSite ==
  site.entry = "api" /\ site.fn \in Forms /\ valid_memory_order(site.order)

\* C36: the orders the retry loop uses internally are always legal: for each
\* of the five orders a caller may pass, the loop's atomic_load(Relaxed) and
\* atomic_compare_exchange_weak(order, Relaxed) are accepted by the load and
\* compare-exchange validity tables, every builtin the loop invokes carries
\* such orders, and a call that is rejected is rejected for its element type,
\* not for an internal call.
C36_LoopOrdersLegal ==
  /\ \A ord \in MemoryOrders :
       /\ valid_memory_order(ord)
       /\ order_assert("atomic_load", loop_load_order, "none")
       /\ order_assert("atomic_compare_exchange_weak", ord, loop_failure_order)
  /\ OrderedCatalogSite =>
       /\ \A i \in 1 .. Len(log) :
            IF log[i].failure = "none"
              THEN log[i].weak = FALSE /\ (Looping(1) => valid_atomic_load_order(log[i].order))
              ELSE valid_atomic_compare_exchange_order(log[i].order, log[i].failure)
       /\ ~accepted =>
            \/ site.op \in BitwiseOps \cup AddSubOps /\ Cardinality(ArithmeticOverloads(T)) # 1
            \/ site.op \notin BitwiseOps \cup AddSubOps /\ T.volatile
            \/ Cardinality(Overloads(T)) # 1

C36_Witness ==
  /\ OrderedCatalogSite /\ accepted /\ Looping(1) /\ pc[1] = "ret"
  /\ site.order = MemoryOrderAcqRel /\ site.fn = "op_fetch" /\ site.op = "min"
  /\ Len(log) = 3
  /\ log[3].order = MemoryOrderAcqRel /\ log[3].failure = MemoryOrderRelaxed

\* --------------------------------------------------------------- C37
\* The indexes of the policy [begin, end) of the k-th dispatch.
Range(k) == exec.tasks[k].begin .. exec.tasks[k].begin + exec.tasks[k].n - 1

\* A step that copies A to h_A.
Copies ==
  <<exec'.h_A, exec'.copy, exec'.torn>> # <<exec.h_A, exec.copy, exec.torn>>

\* C37: a parallel_for over the RangePolicy [begin, end) registers exactly
\* one future with the instance and invokes the functor exactly once for
\* each index i with begin <= i < end and for no other index; after a
\* following fence() all these invocations have completed and their writes
\* A(i) = 2 * i are observed by the host, in A and in a copy of it.
C37_RangeFor ==
  /\ [](\A k \in DOMAIN exec.tasks :
          /\ exec.tasks[k].ran \subseteq Range(k)
          /\ Cardinality(exec.tasks[k].ran) + exec.tasks[k].left = exec.tasks[k].n
          /\ exec.tasks[k].left = 0 => exec.tasks[k].ran = Range(k)
          /\ \A i \in exec.tasks[k].ran : exec.A[i] = i * 2)
  /\ [](exec.fenced =>
          \A k \in Dispatched :
            /\ exec.tasks[k].left = 0
            /\ \A i \in Range(k) : exec.A[i] = i * 2)
  /\ [][/\ Len(exec'.tasks) > Len(exec.tasks) =>
             /\ Len(exec'.tasks) = Len(exec.tasks) + 1
             /\ exec'.fence_futures = Append(exec.fence_futures, Len(exec'.tasks))
        /\ Len(exec'.tasks) = Len(exec.tasks) =>
             Len(exec'.fence_futures) <= Len(exec.fence_futures)
        /\ Copies /\ exec.fenced =>
             \A k \in Dispatched : \A i \in Range(k) : exec'.h_A[i] = i * 2]_vars

\* fence() returned after a parallel_for over [MaxBegin, MaxBegin + MaxRange)
\* and the host copied A.
C37_Witness ==
  /\ exec.fenced /\ exec.host = "idle" /\ exec.copy = "plain"
  /\ \E k \in Dispatched :
       /\ exec.tasks[k].begin = MaxBegin /\ exec.tasks[k].n = MaxRange
       /\ exec.tasks[k].ran = MaxBegin .. MaxBegin + MaxRange - 1
       /\ \A i \in Range(k) : exec.h_A[i] = i * 2
  /\ \A i \in RangeIndexes \ Range(1) : exec.h_A[i] = 0
  /\ Len(exec.tasks) = 1

\* --------------------------------------------------------------- C38
\* C38: TrivialDeepCopyImpl(exec, dst, src, n) copies only after
\* exec.fence() has returned: when it copies, no functor dispatched on the
\* instance has an invocation left to make, so the copy holds every write
\* of the functors dispatched before it; the overload without an instance
\* copies at once, without fencing.
C38_DeepCopyOrdered ==
  /\ [](/\ exec.copy = "instance" => ~exec.torn
        /\ exec.host = "memcpy" =>
             /\ exec.in_copy /\ exec.fenced
             /\ exec.fence_futures = << >>
             /\ ~work_pending)
  /\ [][/\ exec.in_copy /\ ~exec'.in_copy =>
             /\ exec.host = "memcpy" /\ ~work_pending
             /\ exec'.h_A = exec.A /\ exec'.copy = "instance"
             /\ \A k \in Dispatched : \A i \in Range(k) : exec'.h_A[i] = i * 2
        /\ Copies /\ ~exec.in_copy =>
             /\ exec.host = "idle" /\ exec'.host = "idle"
             /\ exec'.h_A = exec.A /\ exec'.copy = "plain"
             /\ exec'.torn = work_pending
             /\ exec'.fence_futures = exec.fence_futures
             /\ exec'.fenced = exec.fenced]_vars

\* A copy with the instance, made while the list of futures held a
\* parallel_for over [MaxBegin, MaxBegin + MaxRange), holds all its writes.
C38_Witness ==
  /\ exec.copy = "instance" /\ exec.host = "idle" /\ ~exec.torn
  /\ \E k \in Dispatched :
       /\ exec.tasks[k].begin = MaxBegin /\ exec.tasks[k].n = MaxRange
       /\ \A i \in Range(k) : exec.h_A[i] = i * 2
  /\ Len(exec.tasks) = 1

\* --------------------------------------------------------------- C39
\* The record a data pointer belongs to, among those created so far.
RecordOf(ptr) == CHOOSE k \in DOMAIN alloc.records : data(k) = ptr

\* The step was a call of fn that returned.
Called(fn) == alloc' # alloc /\ ~alloc'.thrown /\ alloc'.last.fn = fn

\* Every record other than those in S is as it was.
OthersKept(S) ==
  \A k \in DOMAIN alloc.records \ S : alloc'.records[k] = alloc.records[k]

====
